---- MODULE Spec2Model ----
(***************************************************************************)
(* Watermark buffer of source/common/buffer/watermark_buffer.{h,cc}.       *)
(*                                                                         *)
(* The buffer is modelled by its length (the only property of the base     *)
(* buffer OwnedImpl the watermark layer reads), its three thresholds, its  *)
(* two latches, and the callbacks each operation invokes inline.           *)
(*                                                                         *)
(* The memory accounts (BufferMemoryAccountImpl) and the factory that      *)
(* indexes them by size class (WatermarkBufferFactory) are modelled by     *)
(* their members; 64-bit quantities are sequences of four limbs.           *)
(***************************************************************************)
EXTENDS Integers, Sequences, FiniteSets, TLC

\* ---------------------------------------------------------------------------
\* Bounds and input sets
\* ---------------------------------------------------------------------------

\* Largest buffer length explored; growth operations are disabled beyond it.
MaxLen == 110

\* Byte counts handed to add / prepend / commit / move / drain.
Sizes == {0, 5, 10, 15, 60}

\* Arguments of setWatermarks (uint32_t).
Highs == {0, 20, 40, 100}

\* Values of the runtime key envoy.buffer.overflow_multiplier as stored in the
\* uint32_t local of setWatermarks.  (2^30 + 1) * high exceeds UINT32_MAX for
\* every non-zero high above and wraps, mod 2^32, to high itself.
Multipliers == {0, 2, 3, 1073741825}

\* ---------------------------------------------------------------------------
\* State
\* ---------------------------------------------------------------------------

VARIABLES
  length,                            \* OwnedImpl::length()
  high_watermark_,
  low_watermark_,
  overflow_watermark_,
  above_high_watermark_called_,
  above_overflow_watermark_called_,
  calls,                             \* callbacks the last operation invoked, in order
  seen,                              \* the two latches as each of these callbacks found them
  op,                                \* the last operation
  last_hl,                           \* last of above_high / below_low invoked so far
  last_cb,                           \* last of the three callbacks invoked so far
  overflow_calls,                    \* invocations of above_overflow so far (saturates at 2)
  setWatermarks_called,              \* setWatermarks has been called on this buffer
  runtime_multiplier,                \* runtime multiplier read by the last setWatermarks
  s1,                                \* position in scenario S1 (-1: not in the scenario)
  reservation                        \* length the last reserveForRead asked for (0: none)

\* Factory, accounts and their observers.
VARIABLES
  build,                             \* "debug" (ASSERT enabled) or "release" ("none": no process)
  factory_status,                    \* "none", "alive" or "crashed" (RELEASE_ASSERT)
  account_tracking_threshold_bytes,  \* the factory's configuration
  bitshift_,                         \* WatermarkBufferFactory::bitshift_
  size_class_account_sets_,          \* bucket index -> set of accounts
  static_bitshift,                   \* the static local of balanceToClassIndex (-1: not initialized)
  accounts,                          \* account -> members of the BufferMemoryAccountImpl
  asserted,                          \* the ASSERT that terminated the process ("none": running)
  events,                            \* calls the last operation made, in order
  aop,                               \* the last account / factory operation and its arguments
  charged,                           \* account -> sum of the amounts charged
  credited,                          \* account -> sum of the amounts credited
  nops,                              \* number of charge / credit calls made
  s3                                 \* position in scenario S3 (-1: not in the scenario)

\* Several factories in one process.
VARIABLES
  factories,                         \* factory -> status, bitshift_ and size_class_account_sets_
  factory_                           \* account -> BufferMemoryAccountImpl::factory_ (0: none)

bvars == <<length, high_watermark_, low_watermark_, overflow_watermark_,
           above_high_watermark_called_, above_overflow_watermark_called_,
           calls, seen, op, last_hl, last_cb, overflow_calls, setWatermarks_called,
           runtime_multiplier, s1, reservation>>

avars == <<build, factory_status, account_tracking_threshold_bytes, bitshift_,
           size_class_account_sets_, static_bitshift, accounts, asserted,
           events, aop, charged, credited, nops, s3>>

\* Buffers bound to accounts, created by a TrackedWatermarkBufferFactory.
VARIABLES
  buffers,                           \* buffer -> state, length and OwnedImpl::account_ (0: none)
  stream_account_,                   \* account -> its stream holds it (MockStream::account_)
  destructed,                        \* accounts whose destructor has run
  active_buffer_count_,
  account_infos_,                    \* account -> buffers bound to it
  actively_bound_buffers_

tvars == <<buffers, stream_account_, destructed, active_buffer_count_,
           account_infos_, actively_bound_buffers_>>

\* Threads that call into one factory and its accounts.
VARIABLES
  pc,                                \* thread -> the call it is in ("idle": none)
  pending,                           \* thread -> what its call has read and will write
  raced                              \* a thread accessed a set another thread was changing

cvars == <<pc, pending, raced>>

xvars == <<factories, factory_, tvars, cvars>>

vars == <<bvars, avars, xvars>>

\* ---------------------------------------------------------------------------
\* Fixed-width arithmetic: little-endian base-256 digits
\* ---------------------------------------------------------------------------

\* The four bytes of a uint32_t value below 2^31.
ToBytes(n) ==
  <<n % 256, (n \div 256) % 256, (n \div 65536) % 256, (n \div 16777216) % 256>>

\* Sum of the digit products a[i] * b[j] that land in digit k of the product.
Column(a, b, k) ==
  LET P(i) == IF k + 1 - i \in 1..4 THEN a[i] * b[k + 1 - i] ELSE 0
  IN P(1) + P(2) + P(3) + P(4)

RECURSIVE MulDigits(_, _, _, _)
MulDigits(a, b, k, carry) ==
  IF k > 8 THEN <<>>
  ELSE LET t == Column(a, b, k) + carry
       IN <<t % 256>> \o MulDigits(a, b, k + 1, t \div 256)

\* static_cast<uint64_t>(x) * y : the eight bytes of the 64-bit product.
Mul64(x, y) == MulDigits(ToBytes(x), ToBytes(y), 1, 0)

\* d > std::numeric_limits<uint32_t>::max() for a 64-bit value d.
ExceedsUint32(d) == \E i \in 5..8 : d[i] # 0

\* Conversion of a 64-bit value to uint32_t: its low four bytes.
Low32(d) == d[1] + 256 * d[2] + 65536 * d[3] + 16777216 * d[4]

\* x * y in uint32_t arithmetic (the product mod 2^32).
Mul32(x, y) == Low32(Mul64(x, y))

\* ---------------------------------------------------------------------------
\* 64-bit unsigned arithmetic: four 16-bit limbs, least significant first
\* ---------------------------------------------------------------------------

\* The base of a limb.
Limb == 65536

\* The uint64_t with the value of the model integer n (0 <= n < 2^31).
Bits(n) == <<n % Limb, n \div Limb, 0, 0>>

\* The uint64_t 2^e.
Pow2(e) == [i \in 1..4 |-> IF i - 1 = e \div 16 THEN 2^(e % 16) ELSE 0]

\* std::numeric_limits<uint64_t>::max()
UINT64_MAX == [i \in 1..4 |-> Limb - 1]

RECURSIVE AddBits(_, _, _, _)
\* Limbs i.. of a + b + carry followed by the carry out, for a and b of equal length.
AddBits(a, b, i, carry) ==
  IF i > Len(a) THEN <<carry>>
  ELSE LET t == a[i] + b[i] + carry
       IN <<t % Limb>> \o AddBits(a, b, i + 1, t \div Limb)

\* a + b without loss: one limb longer than a and b.
AddWide(a, b) ==
  LET t == AddBits(a, b, 1, 0) IN [i \in 1..(Len(a) + 1) |-> t[i]]

\* a + b in uint64_t arithmetic.
Add64(a, b) ==
  LET t == AddBits(a, b, 1, 0) IN [i \in 1..4 |-> t[i]]

\* a - b in uint64_t arithmetic (a + ~b + 1, the carry out dropped).
Sub64(a, b) ==
  LET t == AddBits(a, [i \in 1..4 |-> Limb - 1 - b[i]], 1, 1) IN [i \in 1..4 |-> t[i]]

\* a >= b for unsigned a and b of equal length.
Geq(a, b) ==
  LET D == {i \in 1..Len(a) : a[i] # b[i]}
  IN IF D = {} THEN TRUE
     ELSE LET m == CHOOSE k \in D : \A j \in D : j <= k IN a[m] > b[m]

\* a >> n for uint64_t a and 0 <= n < 64.
ShiftRight(a, n) ==
  LET q == n \div 16
      r == n % 16
      limb(j) == IF j <= 4 THEN a[j] ELSE 0
  IN [i \in 1..4 |->
        (limb(i + q) \div 2^r) + (limb(i + q + 1) % 2^r) * 2^(16 - r)]

RECURSIVE AndLimb(_, _, _)
\* x & y for limbs x and y, from bit k upwards.
AndLimb(x, y, k) ==
  IF k = 16 THEN 0
  ELSE ((x \div 2^k) % 2) * ((y \div 2^k) % 2) * 2^k + AndLimb(x, y, k + 1)

\* a & b
BitAnd(a, b) == [i \in 1..4 |-> AndLimb(a[i], b[i], 0)]

\* absl::bit_width(a): the number of bits needed to represent a (0 for 0).
bit_width(a) ==
  LET S == {i \in 1..4 : a[i] # 0}
  IN IF S = {} THEN 0
     ELSE LET m == CHOOSE k \in S : \A j \in S : j <= k
          IN 16 * (m - 1) + CHOOSE w \in 1..16 : 2^(w - 1) <= a[m] /\ a[m] < 2^w

\* ---------------------------------------------------------------------------
\* The buffer as a record, threaded through the checks of one operation
\* ---------------------------------------------------------------------------

Self ==
  [length |-> length,
   high_watermark_ |-> high_watermark_,
   low_watermark_ |-> low_watermark_,
   overflow_watermark_ |-> overflow_watermark_,
   above_high_watermark_called_ |-> above_high_watermark_called_,
   above_overflow_watermark_called_ |-> above_overflow_watermark_called_,
   calls |-> <<>>,
   seen |-> <<>>]

\* The buffer as constructed: empty, watermarks disabled, latches clear.
Fresh ==
  [length |-> 0,
   high_watermark_ |-> 0,
   low_watermark_ |-> 0,
   overflow_watermark_ |-> 0,
   above_high_watermark_called_ |-> FALSE,
   above_overflow_watermark_called_ |-> FALSE,
   calls |-> <<>>,
   seen |-> <<>>]

\* The callback cb is invoked: it finds the latches as b has them.
Invoke(b, cb) ==
  [b EXCEPT !.calls = Append(@, cb),
            !.seen = Append(@, <<b.above_high_watermark_called_,
                                 b.above_overflow_watermark_called_>>)]

\* Effect of the base buffer's growing operations on the length.
OwnedImpl_grow(b, n) == [b EXCEPT !.length = @ + n]

\* Effect of the base buffer's shrinking operations on the length.
OwnedImpl_shrink(b, n) == [b EXCEPT !.length = @ - n]

\* checkLowWatermark with the falling comparison made strict.
checkLowWatermark_strict(b) ==
  IF \/ ~b.above_high_watermark_called_
     \/ (b.high_watermark_ # 0 /\ b.length >= b.low_watermark_)
  THEN b
  ELSE [b EXCEPT !.above_high_watermark_called_ = FALSE,
                 !.calls = Append(@, "below_low")]

\* checkLowWatermark without the high_watermark_ != 0 condition.
checkLowWatermark_nozero(b) ==
  IF \/ ~b.above_high_watermark_called_
     \/ b.length > b.low_watermark_
  THEN b
  ELSE [b EXCEPT !.above_high_watermark_called_ = FALSE,
                 !.calls = Append(@, "below_low")]

\* checkLowWatermark that invokes below_low but leaves the latch set.
checkLowWatermark_nolatch(b) ==
  IF \/ ~b.above_high_watermark_called_
     \/ (b.high_watermark_ # 0 /\ b.length > b.low_watermark_)
  THEN b
  ELSE [b EXCEPT !.calls = Append(@, "below_low")]

checkLowWatermark(b) ==
  IF \/ ~b.above_high_watermark_called_
     \/ (b.high_watermark_ # 0 /\ b.length > b.low_watermark_)
  THEN b
  ELSE Invoke([b EXCEPT !.above_high_watermark_called_ = FALSE], "below_low")

\* checkHighAndOverflowWatermarks that does not consult the high latch.
checkHighAndOverflowWatermarks_refire(b) ==
  IF b.high_watermark_ = 0 \/ b.length <= b.high_watermark_
  THEN b
  ELSE LET b1 == IF TRUE
                 THEN [b EXCEPT !.above_high_watermark_called_ = TRUE,
                                !.calls = Append(@, "above_high")]
                 ELSE b
       IN IF /\ b1.overflow_watermark_ # 0
             /\ ~b1.above_overflow_watermark_called_
             /\ b1.length > b1.overflow_watermark_
          THEN [b1 EXCEPT !.above_overflow_watermark_called_ = TRUE,
                          !.calls = Append(@, "above_overflow")]
          ELSE b1

\* checkHighAndOverflowWatermarks with the rising comparison made non-strict.
checkHighAndOverflowWatermarks_ge(b) ==
  IF b.high_watermark_ = 0 \/ b.length < b.high_watermark_
  THEN b
  ELSE LET b1 == IF ~b.above_high_watermark_called_
                 THEN [b EXCEPT !.above_high_watermark_called_ = TRUE,
                                !.calls = Append(@, "above_high")]
                 ELSE b
       IN IF /\ b1.overflow_watermark_ # 0
             /\ ~b1.above_overflow_watermark_called_
             /\ b1.length > b1.overflow_watermark_
          THEN [b1 EXCEPT !.above_overflow_watermark_called_ = TRUE,
                          !.calls = Append(@, "above_overflow")]
          ELSE b1

\* checkHighAndOverflowWatermarks that does not consult the overflow latch.
checkHighAndOverflowWatermarks_relatch(b) ==
  IF b.high_watermark_ = 0 \/ b.length <= b.high_watermark_
  THEN b
  ELSE LET b1 == IF ~b.above_high_watermark_called_
                 THEN [b EXCEPT !.above_high_watermark_called_ = TRUE,
                                !.calls = Append(@, "above_high")]
                 ELSE b
       IN IF /\ b1.overflow_watermark_ # 0
             /\ b1.length > b1.overflow_watermark_
          THEN [b1 EXCEPT !.above_overflow_watermark_called_ = TRUE,
                          !.calls = Append(@, "above_overflow")]
          ELSE b1

\* checkHighAndOverflowWatermarks with the overflow comparison made non-strict.
checkHighAndOverflowWatermarks_ovfge(b) ==
  IF b.high_watermark_ = 0 \/ b.length <= b.high_watermark_
  THEN b
  ELSE LET b1 == IF ~b.above_high_watermark_called_
                 THEN [b EXCEPT !.above_high_watermark_called_ = TRUE,
                                !.calls = Append(@, "above_high")]
                 ELSE b
       IN IF /\ b1.overflow_watermark_ # 0
             /\ ~b1.above_overflow_watermark_called_
             /\ b1.length >= b1.overflow_watermark_
          THEN [b1 EXCEPT !.above_overflow_watermark_called_ = TRUE,
                          !.calls = Append(@, "above_overflow")]
          ELSE b1

\* checkHighAndOverflowWatermarks without the high_watermark_ == 0 early return.
checkHighAndOverflowWatermarks_nozero(b) ==
  IF b.length <= b.high_watermark_
  THEN b
  ELSE LET b1 == IF ~b.above_high_watermark_called_
                 THEN [b EXCEPT !.above_high_watermark_called_ = TRUE,
                                !.calls = Append(@, "above_high")]
                 ELSE b
       IN IF /\ b1.overflow_watermark_ # 0
             /\ ~b1.above_overflow_watermark_called_
             /\ b1.length > b1.overflow_watermark_
          THEN [b1 EXCEPT !.above_overflow_watermark_called_ = TRUE,
                          !.calls = Append(@, "above_overflow")]
          ELSE b1

\* checkHighAndOverflowWatermarks comparing the length with the low watermark.
checkHighAndOverflowWatermarks_low(b) ==
  IF b.high_watermark_ = 0 \/ b.length <= b.low_watermark_
  THEN b
  ELSE LET b1 == IF ~b.above_high_watermark_called_
                 THEN [b EXCEPT !.above_high_watermark_called_ = TRUE,
                                !.calls = Append(@, "above_high")]
                 ELSE b
       IN IF /\ b1.overflow_watermark_ # 0
             /\ ~b1.above_overflow_watermark_called_
             /\ b1.length > b1.overflow_watermark_
          THEN [b1 EXCEPT !.above_overflow_watermark_called_ = TRUE,
                          !.calls = Append(@, "above_overflow")]
          ELSE b1

\* checkHighAndOverflowWatermarks that invokes each callback before it sets
\* the latch of the callback.
checkHighAndOverflowWatermarks_callfirst(b) ==
  IF b.high_watermark_ = 0 \/ b.length <= b.high_watermark_
  THEN b
  ELSE LET b1 == IF ~b.above_high_watermark_called_
                 THEN [Invoke(b, "above_high") EXCEPT !.above_high_watermark_called_ = TRUE]
                 ELSE b
       IN IF /\ b1.overflow_watermark_ # 0
             /\ ~b1.above_overflow_watermark_called_
             /\ b1.length > b1.overflow_watermark_
          THEN [Invoke(b1, "above_overflow") EXCEPT !.above_overflow_watermark_called_ = TRUE]
          ELSE b1

checkHighAndOverflowWatermarks(b) ==
  IF b.high_watermark_ = 0 \/ b.length <= b.high_watermark_
  THEN b
  ELSE LET b1 == IF ~b.above_high_watermark_called_
                 THEN Invoke([b EXCEPT !.above_high_watermark_called_ = TRUE], "above_high")
                 ELSE b
       IN IF /\ b1.overflow_watermark_ # 0
             /\ ~b1.above_overflow_watermark_called_
             /\ b1.length > b1.overflow_watermark_
          THEN Invoke([b1 EXCEPT !.above_overflow_watermark_called_ = TRUE],
                      "above_overflow")
          ELSE b1

\* setWatermarks that does not check the high watermark.
setWatermarksImpl_nocheck(b, high_watermark, m) ==
  LET overflow_watermark_multiplier ==
        IF m > 0 /\ ExceedsUint32(Mul64(m, high_watermark)) THEN 0 ELSE m
      b1 == [b EXCEPT !.low_watermark_ = high_watermark \div 2,
                      !.high_watermark_ = high_watermark,
                      !.overflow_watermark_ =
                          Mul32(overflow_watermark_multiplier, high_watermark)]
  IN checkLowWatermark(b1)

\* setWatermarks that rounds the low watermark up.
setWatermarksImpl_ceil(b, high_watermark, m) ==
  LET overflow_watermark_multiplier ==
        IF m > 0 /\ ExceedsUint32(Mul64(m, high_watermark)) THEN 0 ELSE m
      b1 == [b EXCEPT !.low_watermark_ = (high_watermark + 1) \div 2,
                      !.high_watermark_ = high_watermark,
                      !.overflow_watermark_ =
                          Mul32(overflow_watermark_multiplier, high_watermark)]
  IN checkLowWatermark(checkHighAndOverflowWatermarks(b1))

\* setWatermarks that tests the product after it was truncated to uint32_t.
setWatermarksImpl_trunc(b, high_watermark, m) ==
  LET overflow_watermark_multiplier ==
        IF m > 0 /\ ExceedsUint32(ToBytes(Mul32(m, high_watermark)) \o <<0, 0, 0, 0>>)
        THEN 0 ELSE m
      b1 == [b EXCEPT !.low_watermark_ = high_watermark \div 2,
                      !.high_watermark_ = high_watermark,
                      !.overflow_watermark_ =
                          Mul32(overflow_watermark_multiplier, high_watermark)]
  IN checkLowWatermark(checkHighAndOverflowWatermarks(b1))

\* Body of setWatermarks(high_watermark) with the runtime multiplier m.
setWatermarksImpl(b, high_watermark, m) ==
  LET overflow_watermark_multiplier ==
        IF m > 0 /\ ExceedsUint32(Mul64(m, high_watermark)) THEN 0 ELSE m
      b1 == [b EXCEPT !.low_watermark_ = high_watermark \div 2,
                      !.high_watermark_ = high_watermark,
                      !.overflow_watermark_ =
                          Mul32(overflow_watermark_multiplier, high_watermark)]
  IN checkLowWatermark(checkHighAndOverflowWatermarks(b1))

\* ---------------------------------------------------------------------------
\* Observers
\* ---------------------------------------------------------------------------

RECURSIVE LastIn(_, _, _)
\* The last element of seq that is in set S, or dflt when there is none.
LastIn(seq, S, dflt) ==
  IF seq = <<>> THEN dflt
  ELSE IF seq[Len(seq)] \in S THEN seq[Len(seq)]
  ELSE LastIn(SubSeq(seq, 1, Len(seq) - 1), S, dflt)

Count(seq, c) == Cardinality({i \in 1..Len(seq) : seq[i] = c})

Min(x, y) == IF x < y THEN x ELSE y

\* Scenario S1: on an empty buffer with high = 100,
\* add(60); add(10); drain(15); drain(10); add(60).
S1Script == << <<"add", 60>>, <<"add", 10>>, <<"drain", 15>>,
               <<"drain", 10>>, <<"add", 60>> >>

S1Next(o, n, b) ==
  IF s1 \in 0..(Len(S1Script) - 1) /\ S1Script[s1 + 1] = <<o, n>> THEN s1 + 1
  ELSE IF b.length = 0 /\ b.high_watermark_ = 100 THEN 0
  ELSE -1

\* The operation o with argument n returns, leaving the buffer as b.
Return(o, n, b) ==
  /\ length' = b.length
  /\ high_watermark_' = b.high_watermark_
  /\ low_watermark_' = b.low_watermark_
  /\ overflow_watermark_' = b.overflow_watermark_
  /\ above_high_watermark_called_' = b.above_high_watermark_called_
  /\ above_overflow_watermark_called_' = b.above_overflow_watermark_called_
  /\ calls' = b.calls
  /\ seen' = b.seen
  /\ op' = o
  /\ last_hl' = LastIn(b.calls, {"above_high", "below_low"}, last_hl)
  /\ last_cb' = LastIn(b.calls, {"above_high", "below_low", "above_overflow"}, last_cb)
  /\ overflow_calls' = Min(2, overflow_calls + Count(b.calls, "above_overflow"))
  /\ s1' = S1Next(o, n, b)
  /\ UNCHANGED <<reservation, avars, xvars>>

\* ---------------------------------------------------------------------------
\* Accounts and factory
\* ---------------------------------------------------------------------------

\* Number of accounts a factory creates.
NumAccounts == 3

Accts == 1..NumAccounts

\* BufferMemoryAccountImpl::NUM_MEMORY_CLASSES_
NUM_MEMORY_CLASSES_ == 8

\* An absl::optional<uint32_t> class index without a value.
NoClass == -1

\* An account that was not created.
NoAccount == [live |-> FALSE]

\* Limbs of the sums of charged and of credited amounts, which do not wrap.
WideLimbs == 5

WideZero == [i \in 1..WideLimbs |-> 0]

\* The uint64_t a as a wide natural.
Wide(a) == [i \in 1..WideLimbs |-> IF i <= 4 THEN a[i] ELSE 0]

\* a + b for wide naturals.
AddW(a, b) == LET t == AddBits(a, b, 1, 0) IN [i \in 1..WideLimbs |-> t[i]]

\* The low 64 bits of a wide natural.
Low64(a) == [i \in 1..4 |-> a[i]]

\* kDefaultMinimumTrackingBytes with the offset off by one.
kDefaultMinimumTrackingBytes_off == bit_width(Bits(1024 * 256)) - 2

kDefaultMinimumTrackingBytes == bit_width(Bits(1024 * 256)) - 1

\* The factory, the accounts and the static of balanceToClassIndex as one
\* record, threaded through the calls of one operation.
World ==
  [build |-> build,
   bitshift_ |-> bitshift_,
   sets |-> size_class_account_sets_,
   static |-> static_bitshift,
   accounts |-> accounts,
   asserted |-> "none",
   events |-> <<>>]

\* Op applied to w unless an assertion has already terminated the process.
Then(w, Op(_)) == IF w.asserted # "none" THEN w ELSE Op(w)

\* ASSERT(cond): a failing assertion terminates a debug build; a release
\* build does not evaluate it.
ASSERT_(w, cond, what) ==
  IF w.build = "debug" /\ w.asserted = "none" /\ ~cond
  THEN [w EXCEPT !.asserted = what]
  ELSE w

\* The constructor without the default for an unset threshold.
WatermarkBufferFactory_ctor_nodefault(threshold) ==
  [bitshift_ |-> bit_width(Sub64(threshold, Bits(1))),
   ok |-> \/ threshold = Bits(0)
          \/ BitAnd(threshold, Sub64(threshold, Bits(1))) = Bits(0)]

\* The constructor with the bit width of the threshold itself.
WatermarkBufferFactory_ctor_width(threshold) ==
  [bitshift_ |-> IF threshold # Bits(0)
                 THEN bit_width(threshold)
                 ELSE kDefaultMinimumTrackingBytes,
   ok |-> \/ threshold = Bits(0)
          \/ BitAnd(threshold, Sub64(threshold, Bits(1))) = Bits(0)]

\* WatermarkBufferFactory::WatermarkBufferFactory(config): the bitshift_ it
\* initializes and whether its RELEASE_ASSERT holds.
WatermarkBufferFactory_ctor(threshold) ==
  [bitshift_ |-> IF threshold # Bits(0)
                 THEN bit_width(Sub64(threshold, Bits(1)))
                 ELSE kDefaultMinimumTrackingBytes,
   ok |-> \/ threshold = Bits(0)
          \/ BitAnd(threshold, Sub64(threshold, Bits(1))) = Bits(0)]

\* The destructor that looks at the first account set only.
WatermarkBufferFactory_dtor_first(w) ==
  ASSERT_(w, w.sets[0] = {}, "~WatermarkBufferFactory: account set not empty")

\* WatermarkBufferFactory::~WatermarkBufferFactory(): every account set is
\* asserted to be empty.
WatermarkBufferFactory_dtor(w) ==
  ASSERT_(w, \A i \in 0..(NUM_MEMORY_CLASSES_ - 1) : w.sets[i] = {},
          "~WatermarkBufferFactory: account set not empty")

\* updateAccountClass that leaves the account in its old set when it moves.
WatermarkBufferFactory_updateAccountClass_noextract(w, a, current_class, new_class) ==
  LET w0 == ASSERT_(w, current_class # new_class, "updateAccountClass: classes equal")
  IN Then(w0, LAMBDA v :
       IF current_class = NoClass /\ new_class # NoClass THEN
         Then(ASSERT_(v, a \notin v.sets[new_class], "updateAccountClass: already tracked"),
              LAMBDA u : [u EXCEPT !.sets[new_class] = @ \cup {a}])
       ELSE IF current_class # NoClass /\ new_class = NoClass THEN
         Then(ASSERT_(v, a \in v.sets[current_class], "updateAccountClass: not tracked"),
              LAMBDA u : [u EXCEPT !.sets[current_class] = @ \ {a}])
       ELSE
         Then(ASSERT_(v, a \in v.sets[current_class], "updateAccountClass: not in current"),
              LAMBDA u :
                Then(ASSERT_(u, a \notin u.sets[new_class], "updateAccountClass: already in new"),
                     LAMBDA t :
                       IF a \notin t.sets[current_class]
                       THEN [t EXCEPT !.asserted = "value() of an empty node handle"]
                       ELSE [t EXCEPT !.sets[new_class] = @ \cup {a}])))

WatermarkBufferFactory_updateAccountClass(w, a, current_class, new_class) ==
  LET w0 == ASSERT_(w, current_class # new_class, "updateAccountClass: classes equal")
  IN Then(w0, LAMBDA v :
       IF current_class = NoClass /\ new_class # NoClass THEN
         \* Start tracking
         Then(ASSERT_(v, a \notin v.sets[new_class], "updateAccountClass: already tracked"),
              LAMBDA u : [u EXCEPT !.sets[new_class] = @ \cup {a}])
       ELSE IF current_class # NoClass /\ new_class = NoClass THEN
         \* No longer track
         Then(ASSERT_(v, a \in v.sets[current_class], "updateAccountClass: not tracked"),
              LAMBDA u : [u EXCEPT !.sets[current_class] = @ \ {a}])
       ELSE
         \* Moving between buckets
         Then(ASSERT_(v, a \in v.sets[current_class], "updateAccountClass: not in current"),
              LAMBDA u :
                Then(ASSERT_(u, a \notin u.sets[new_class], "updateAccountClass: already in new"),
                     LAMBDA t :
                       IF a \notin t.sets[current_class]
                       THEN [t EXCEPT !.asserted = "value() of an empty node handle"]
                       ELSE [t EXCEPT !.sets[current_class] = @ \ {a},
                                      !.sets[new_class] = @ \cup {a}])))

unregisterAccount(w, a, current_class) ==
  IF current_class # NoClass
  THEN Then(ASSERT_(w, a \in w.sets[current_class], "unregisterAccount: not tracked"),
            LAMBDA u : [u EXCEPT !.sets[current_class] = @ \ {a}])
  ELSE w

\* The class of a balance as the bit width of the shifted balance itself.
ClassIndex_width(balance, bitshift) ==
  LET shifted_balance == ShiftRight(balance, bitshift)
  IN IF shifted_balance = Bits(0) THEN NoClass
     ELSE LET class_idx == bit_width(shifted_balance)
          IN IF class_idx < NUM_MEMORY_CLASSES_ - 1 THEN class_idx
             ELSE NUM_MEMORY_CLASSES_ - 1

\* The computation of balanceToClassIndex on a balance and a bitshift.
ClassIndex(balance, bitshift) ==
  LET shifted_balance == ShiftRight(balance, bitshift)
  IN IF shifted_balance = Bits(0) THEN NoClass
     ELSE LET class_idx == bit_width(shifted_balance) - 1
          IN IF class_idx < NUM_MEMORY_CLASSES_ - 1 THEN class_idx
             ELSE NUM_MEMORY_CLASSES_ - 1

\* balanceToClassIndex(): the static local bitshift is initialized by the
\* first call in the process.
balanceToClassIndex(w, a) ==
  LET bitshift == IF w.static = -1 THEN w.bitshift_ ELSE w.static
  IN [w |-> [w EXCEPT !.static = bitshift],
      class |-> ClassIndex(w.accounts[a].buffer_memory_allocated_, bitshift)]

\* updateAccountClass that does not record the new class in the account.
BufferMemoryAccountImpl_updateAccountClass_stale(w, a) ==
  LET r == balanceToClassIndex(w, a)
      new_class == r.class
      current == r.w.accounts[a].current_bucket_idx_
  IN IF r.w.accounts[a].shared_this_ /\ new_class # current
     THEN WatermarkBufferFactory_updateAccountClass(r.w, a, current, new_class)
     ELSE r.w

\* updateAccountClass that does not look at shared_this_.
BufferMemoryAccountImpl_updateAccountClass_noshared(w, a) ==
  LET r == balanceToClassIndex(w, a)
      new_class == r.class
      current == r.w.accounts[a].current_bucket_idx_
  IN IF new_class # current
     THEN Then(WatermarkBufferFactory_updateAccountClass(r.w, a, current, new_class),
               LAMBDA u : [u EXCEPT !.accounts[a].current_bucket_idx_ = new_class])
     ELSE r.w

BufferMemoryAccountImpl_updateAccountClass(w, a) ==
  LET r == balanceToClassIndex(w, a)
      new_class == r.class
      current == r.w.accounts[a].current_bucket_idx_
  IN IF r.w.accounts[a].shared_this_ /\ new_class # current
     THEN Then(WatermarkBufferFactory_updateAccountClass(r.w, a, current, new_class),
               LAMBDA u : [u EXCEPT !.accounts[a].current_bucket_idx_ = new_class])
     ELSE r.w

\* credit that adds the amount.
credit_adds(w, a, amount) ==
  Then(ASSERT_(w, Geq(w.accounts[a].buffer_memory_allocated_, amount), "credit"),
       LAMBDA u :
         BufferMemoryAccountImpl_updateAccountClass(
           [u EXCEPT !.accounts[a].buffer_memory_allocated_ = Add64(@, amount)], a))

credit(w, a, amount) ==
  Then(ASSERT_(w, Geq(w.accounts[a].buffer_memory_allocated_, amount), "credit"),
       LAMBDA u :
         BufferMemoryAccountImpl_updateAccountClass(
           [u EXCEPT !.accounts[a].buffer_memory_allocated_ = Sub64(@, amount)], a))

\* charge that leaves the balance as it was.
charge_nothing(w, a, amount) ==
  Then(ASSERT_(w, Geq(Sub64(UINT64_MAX, w.accounts[a].buffer_memory_allocated_), amount),
               "charge"),
       LAMBDA u : BufferMemoryAccountImpl_updateAccountClass(u, a))

charge(w, a, amount) ==
  Then(ASSERT_(w, Geq(Sub64(UINT64_MAX, w.accounts[a].buffer_memory_allocated_), amount),
               "charge"),
       LAMBDA u :
         BufferMemoryAccountImpl_updateAccountClass(
           [u EXCEPT !.accounts[a].buffer_memory_allocated_ = Add64(@, amount)], a))

\* clearDownstream that keeps shared_this_.
clearDownstream_shared(w, a) ==
  IF w.accounts[a].reset_handler_
  THEN Then(unregisterAccount([w EXCEPT !.accounts[a].reset_handler_ = FALSE], a,
                              w.accounts[a].current_bucket_idx_),
            LAMBDA u : [u EXCEPT !.accounts[a].current_bucket_idx_ = NoClass])
  ELSE w

\* clearDownstream that does not unregister the account from the factory.
clearDownstream_keep(w, a) ==
  IF w.accounts[a].reset_handler_
  THEN [w EXCEPT !.accounts[a].reset_handler_ = FALSE,
                 !.accounts[a].current_bucket_idx_ = NoClass,
                 !.accounts[a].shared_this_ = FALSE]
  ELSE w

clearDownstream(w, a) ==
  IF w.accounts[a].reset_handler_
  THEN Then(unregisterAccount([w EXCEPT !.accounts[a].reset_handler_ = FALSE], a,
                              w.accounts[a].current_bucket_idx_),
            LAMBDA u : [u EXCEPT !.accounts[a].current_bucket_idx_ = NoClass,
                                 !.accounts[a].shared_this_ = FALSE])
  ELSE w

\* The streams that own the accounts of S are destroyed: each clears the
\* downstream of its account.
RECURSIVE ClearEach(_, _)
ClearEach(w, S) ==
  IF S = {} \/ w.asserted # "none" THEN w
  ELSE LET b == CHOOSE x \in S : TRUE
       IN ClearEach(clearDownstream(w, b), S \ {b})

\* The reset callbacks of each stream of S destroy that stream and no other.
Own(S) == {<<a, a>> : a \in S}

\* Http::StreamResetHandler::resetStream of the stream that owns account a:
\* it runs the stream's reset callbacks.  For the pairs <<a, b>> in inline
\* the callbacks destroy the stream of account b, which clears that
\* account's downstream before resetStream returns; the other streams
\* outlive the call.
resetStream(w, a, inline) ==
  LET w0 == [w EXCEPT !.events = Append(@, <<"resetStream", a>>)]
  IN ClearEach(w0, {b \in Accts : <<a, b>> \in inline})

\* resetDownstream that does not look at reset_handler_.
resetDownstream_always(w, a, inline) ==
  LET w0 == [w EXCEPT !.events = Append(@, <<"resetDownstream", a>>)]
  IN resetStream(w0, a, inline)

resetDownstream(w, a, inline) ==
  LET w0 == [w EXCEPT !.events = Append(@, <<"resetDownstream", a>>)]
  IN IF w0.accounts[a].reset_handler_ THEN resetStream(w0, a, inline) ELSE w0

\* The elements of set S in the iteration order given by the sequence order.
InOrder(S, order) == SelectSeq(order, LAMBDA x : x \in S)

\* begin() of a set: its first element in iteration order (0: end()).
Begin(S, order) == IF S = {} THEN 0 ELSE InOrder(S, order)[1]

\* std::next(it) in set S (0: end()).
StdNext(S, it, order) ==
  LET q == InOrder(S, order)
      i == CHOOSE j \in 1..Len(q) : q[j] = it
  IN IF i = Len(q) THEN 0 ELSE q[i + 1]

RECURSIVE WalkBucket(_, _, _, _, _)
\* The inner loop that resets the account before it advances: std::next of
\* an iterator whose element the reset has erased.
WalkBucket_late(w, bucket_idx, it, order, inline) ==
  IF w.asserted # "none" \/ it = 0 THEN w
  ELSE LET w1 == resetDownstream(w, it, inline)
       IN IF it \notin w1.sets[bucket_idx]
          THEN [w1 EXCEPT !.asserted = "invalidated iterator"]
          ELSE WalkBucket(w1, bucket_idx, StdNext(w1.sets[bucket_idx], it, order),
                          order, inline)

\* The inner loop of resetAllAccountsInBucketsStartingWith over one bucket.
\* An erase of the element next points to leaves next dangling.
WalkBucket(w, bucket_idx, it, order, inline) ==
  IF w.asserted # "none" \/ it = 0 THEN w
  ELSE LET next == StdNext(w.sets[bucket_idx], it, order)
           w1 == resetDownstream(w, it, inline)
       IN IF next # 0 /\ next \notin w1.sets[bucket_idx]
          THEN [w1 EXCEPT !.asserted = "invalidated iterator"]
          ELSE WalkBucket(w1, bucket_idx, next, order, inline)

RECURSIVE WalkBuckets(_, _, _, _)
\* The outer loop of resetAllAccountsInBucketsStartingWith.
WalkBuckets(w, bucket_idx, order, inline) ==
  IF w.asserted # "none" \/ bucket_idx >= NUM_MEMORY_CLASSES_ THEN w
  ELSE WalkBuckets(WalkBucket(w, bucket_idx, Begin(w.sets[bucket_idx], order),
                              order, inline),
                   bucket_idx + 1, order, inline)

\* The walk started one bucket too high.
resetAllAccountsInBucketsStartingWith_skip(w, bucket_idx, order, inline) ==
  Then(ASSERT_(w, bucket_idx >= 0 /\ bucket_idx < NUM_MEMORY_CLASSES_,
               "resetAllAccountsInBucketsStartingWith: index out of range"),
       LAMBDA u : WalkBuckets(u, bucket_idx + 1, order, inline))

resetAllAccountsInBucketsStartingWith(w, bucket_idx, order, inline) ==
  Then(ASSERT_(w, bucket_idx >= 0 /\ bucket_idx < NUM_MEMORY_CLASSES_,
               "resetAllAccountsInBucketsStartingWith: index out of range"),
       LAMBDA u : WalkBuckets(u, bucket_idx, order, inline))

\* createAccount that leaves shared_this_ unset.
createAccount_noshared(w, a) ==
  [w EXCEPT !.accounts[a] =
     [live |-> TRUE,
      buffer_memory_allocated_ |-> Bits(0),
      current_bucket_idx_ |-> NoClass,
      reset_handler_ |-> TRUE,
      shared_this_ |-> FALSE]]

\* createAccount: a new account wired to the factory, its reset handler and
\* shared_this_.
createAccount(w, a) ==
  [w EXCEPT !.accounts[a] =
     [live |-> TRUE,
      buffer_memory_allocated_ |-> Bits(0),
      current_bucket_idx_ |-> NoClass,
      reset_handler_ |-> TRUE,
      shared_this_ |-> TRUE]]

\* Number of factories in the process.
NumFactories == 2

Factories == 1..NumFactories

\* A factory that was not constructed.
NoFactory ==
  [status |-> "none",
   bitshift_ |-> 0,
   size_class_account_sets_ |-> [i \in 0..(NUM_MEMORY_CLASSES_ - 1) |-> {}]]

\* No factory of the several was constructed and no account belongs to one.
NoFactories ==
  /\ factories = [f \in Factories |-> NoFactory]
  /\ factory_ = [a \in Accts |-> 0]

\* Number of buffers the tracked factory creates.
NumBuffers == 3

Bufs == 1..NumBuffers

\* A buffer that was not created.
NoBuffer == [state |-> "none", length |-> 0, account_ |-> 0]

\* No buffer was created and the tracked factory tracks nothing.
NoBuffers ==
  /\ buffers = [b \in Bufs |-> NoBuffer]
  /\ stream_account_ = [a \in Accts |-> FALSE]
  /\ destructed = {}
  /\ active_buffer_count_ = 0
  /\ account_infos_ = [a \in {} |-> {}]
  /\ actively_bound_buffers_ = {}

\* Two workers, each with the account of its number, and a coordinator.
Workers == 1..2

Coordinator == 3

Threads == Workers \cup {Coordinator}

\* A thread that is in no call.
NoCall == [account |-> 0, touched |-> {}]

\* No thread is in a call.
NoThreads ==
  /\ pc = [t \in Threads |-> "idle"]
  /\ pending = [t \in Threads |-> NoCall]
  /\ raced = FALSE

\* ---------------------------------------------------------------------------
\* Operations
\* ---------------------------------------------------------------------------

Init ==
  /\ length = 0
  /\ high_watermark_ = 0
  /\ low_watermark_ = 0
  /\ overflow_watermark_ = 0
  /\ above_high_watermark_called_ = FALSE
  /\ above_overflow_watermark_called_ = FALSE
  /\ calls = <<>>
  /\ seen = <<>>
  /\ op = "init"
  /\ last_hl = "none"
  /\ last_cb = "none"
  /\ overflow_calls = 0
  /\ setWatermarks_called = FALSE
  /\ runtime_multiplier = 0
  /\ s1 = -1
  /\ reservation = 0
  /\ build = "none"
  /\ factory_status = "none"
  /\ account_tracking_threshold_bytes = Bits(0)
  /\ bitshift_ = 0
  /\ size_class_account_sets_ = [i \in 0..(NUM_MEMORY_CLASSES_ - 1) |-> {}]
  /\ static_bitshift = -1
  /\ accounts = [a \in Accts |-> NoAccount]
  /\ asserted = "none"
  /\ events = <<>>
  /\ aop = <<"init">>
  /\ charged = [a \in Accts |-> WideZero]
  /\ credited = [a \in Accts |-> WideZero]
  /\ nops = 0
  /\ s3 = -1
  /\ NoFactories
  /\ NoBuffers
  /\ NoThreads

\* A growing operation named o of n bytes.
Grow(o, n) ==
  /\ length + n <= MaxLen
  /\ Return(o, n, checkHighAndOverflowWatermarks(OwnedImpl_grow(Self, n)))
  /\ UNCHANGED <<setWatermarks_called, runtime_multiplier>>

\* A shrinking operation named o of n bytes.
Shrink(o, n) ==
  /\ n <= length
  /\ Return(o, n, checkLowWatermark(OwnedImpl_shrink(Self, n)))
  /\ UNCHANGED <<setWatermarks_called, runtime_multiplier>>

add == \E n \in Sizes : Grow("add", n)

prepend == \E n \in Sizes : Grow("prepend", n)

commit == \E n \in Sizes : Grow("commit", n)

move == \E n \in Sizes : Grow("move", n)

appendSliceForTest == \E n \in Sizes : Grow("appendSliceForTest", n)

drain == \E n \in Sizes : Shrink("drain", n)

\* The front slice holds some n of the buffer's bytes (none when it is empty).
extractMutableFrontSlice ==
  \E n \in Sizes :
    /\ (length > 0 => n > 0)
    /\ Shrink("extractMutableFrontSlice", n)

postProcess == Shrink("postProcess", 0)

setWatermarks ==
  \E high_watermark \in Highs, m \in Multipliers :
    /\ Return("setWatermarks", high_watermark,
              setWatermarksImpl(Self, high_watermark, m))
    /\ setWatermarks_called' = TRUE
    /\ runtime_multiplier' = m

Next ==
  \/ add
  \/ prepend
  \/ commit
  \/ move
  \/ appendSliceForTest
  \/ drain
  \/ extractMutableFrontSlice
  \/ postProcess
  \/ setWatermarks

Spec == Init /\ [][Next]_vars

\* ---------------------------------------------------------------------------
\* Read reservations
\* ---------------------------------------------------------------------------

\* Slice::default_slice_size_
default_slice_size_ == 4096

\* OwnedImpl::default_read_reservation_size_
default_read_reservation_size_ == 65536

\* IntUtil::roundUpToMultiple(val, rounder)
roundUpToMultiple(val, rounder) == ((val + rounder - 1) \div rounder) * rounder

\* Buffer lengths at the time of the reservation.
LengthsR ==
  {0, 1, 904, 4095, 4096, 4097, 11264, 12288, 16383, 16384, 16385, 100000}

\* High watermarks at the time of the reservation.
HighsR == {0, 1, 4096, 5000, 16384, 100000, 200000}

\* reserveForRead that does not cap the rounded headroom by the preferred
\* length.
reserveForRead_nomin(b) ==
  LET preferred_length == default_read_reservation_size_
  IN IF b.high_watermark_ > 0 /\ preferred_length > 0
     THEN LET current_length == b.length
          IN IF current_length >= b.high_watermark_
             THEN default_slice_size_
             ELSE LET available_length == b.high_watermark_ - current_length
                  IN roundUpToMultiple(available_length, default_slice_size_)
     ELSE preferred_length

\* reserveForRead that compares the length with the high watermark strictly.
reserveForRead_gt(b) ==
  LET preferred_length == default_read_reservation_size_
  IN IF b.high_watermark_ > 0 /\ preferred_length > 0
     THEN LET current_length == b.length
          IN IF current_length > b.high_watermark_
             THEN default_slice_size_
             ELSE LET available_length == b.high_watermark_ - current_length
                  IN Min(roundUpToMultiple(available_length, default_slice_size_),
                         preferred_length)
     ELSE preferred_length

\* reserveForRead(): the length handed to OwnedImpl::reserveWithMaxLength.
reserveForRead(b) ==
  LET preferred_length == default_read_reservation_size_
  IN IF b.high_watermark_ > 0 /\ preferred_length > 0
     THEN LET current_length == b.length
          IN IF current_length >= b.high_watermark_
             THEN default_slice_size_
             ELSE LET available_length == b.high_watermark_ - current_length
                  IN Min(roundUpToMultiple(available_length, default_slice_size_),
                         preferred_length)
     ELSE preferred_length

\* A buffer on which setWatermarks(H) and then add(L) were called.
InitReserve ==
  \E L \in LengthsR, H \in HighsR :
    LET b == checkHighAndOverflowWatermarks(
               OwnedImpl_grow(setWatermarksImpl(Fresh, H, 0), L))
    IN /\ length = b.length
       /\ high_watermark_ = b.high_watermark_
       /\ low_watermark_ = b.low_watermark_
       /\ overflow_watermark_ = b.overflow_watermark_
       /\ above_high_watermark_called_ = b.above_high_watermark_called_
       /\ above_overflow_watermark_called_ = b.above_overflow_watermark_called_
       /\ calls = b.calls
       /\ seen = b.seen
       /\ op = "add"
       /\ last_hl = LastIn(b.calls, {"above_high", "below_low"}, "none")
       /\ last_cb = LastIn(b.calls, {"above_high", "below_low", "above_overflow"}, "none")
       /\ overflow_calls = Count(b.calls, "above_overflow")
       /\ setWatermarks_called = TRUE
       /\ runtime_multiplier = 0
       /\ s1 = -1
       /\ reservation = 0
       /\ build = "none"
       /\ factory_status = "none"
       /\ account_tracking_threshold_bytes = Bits(0)
       /\ bitshift_ = 0
       /\ size_class_account_sets_ = [i \in 0..(NUM_MEMORY_CLASSES_ - 1) |-> {}]
       /\ static_bitshift = -1
       /\ accounts = [a \in Accts |-> NoAccount]
       /\ asserted = "none"
       /\ events = <<>>
       /\ aop = <<"init">>
       /\ charged = [a \in Accts |-> WideZero]
       /\ credited = [a \in Accts |-> WideZero]
       /\ nops = 0
       /\ s3 = -1
       /\ NoFactories
       /\ NoBuffers
       /\ NoThreads

reserveForReadCall ==
  /\ reservation' = reserveForRead(Self)
  /\ op' = "reserveForRead"
  /\ calls' = <<>>
  /\ seen' = <<>>
  /\ UNCHANGED <<length, high_watermark_, low_watermark_, overflow_watermark_,
                 above_high_watermark_called_, above_overflow_watermark_called_,
                 last_hl, last_cb, overflow_calls, setWatermarks_called,
                 runtime_multiplier, s1, avars, xvars>>

NextReserve == reserveForReadCall

SpecReserve == InitReserve /\ [][NextReserve]_vars

\* ---------------------------------------------------------------------------
\* setWatermarks with odd thresholds
\* ---------------------------------------------------------------------------

\* Arguments of setWatermarks, odd ones among them.  Every product with a
\* multiplier below is less than 2^31 or exceeds UINT32_MAX.
MarkHighs == {0, 5, 7, 9, 20, 41}

\* Runtime multipliers, 1 among them.
MarkMultipliers == Multipliers \cup {1}

setWatermarksAny ==
  \E high_watermark \in MarkHighs, m \in MarkMultipliers :
    /\ Return("setWatermarks", high_watermark,
              setWatermarksImpl(Self, high_watermark, m))
    /\ setWatermarks_called' = TRUE
    /\ runtime_multiplier' = m

NextMarks ==
  \/ setWatermarksAny
  \/ add
  \/ drain

SpecMarks == Init /\ [][NextMarks]_vars

\* ---------------------------------------------------------------------------
\* Account and factory operations
\* ---------------------------------------------------------------------------

\* The account / factory operation o returns, leaving the world as w.
AReturn(o, w) ==
  /\ size_class_account_sets_' = w.sets
  /\ static_bitshift' = w.static
  /\ accounts' = w.accounts
  /\ asserted' = w.asserted
  /\ events' = w.events
  /\ aop' = o
  /\ UNCHANGED <<bvars, xvars, build, factory_status,
                 account_tracking_threshold_bytes, bitshift_>>

\* The process runs: the factory was constructed and no assertion failed.
Running == factory_status = "alive" /\ asserted = "none"

\* Scenario S3 on a fresh account of a factory with the default threshold:
\* charge(128 KiB); charge(128 KiB); charge(256 KiB); charge(32 MiB);
\* credit(32 MiB).
S3Script ==
  << <<"charge", Pow2(17)>>, <<"charge", Pow2(17)>>, <<"charge", Pow2(18)>>,
     <<"charge", Pow2(25)>>, <<"credit", Pow2(25)>> >>

S3Next(o, amount, w) ==
  IF w.asserted = "none" /\ s3 >= 0 /\ s3 < Len(S3Script)
     /\ S3Script[s3 + 1] = <<o, amount>>
  THEN s3 + 1
  ELSE -1

\* The factory is constructed from a configuration with threshold T in a
\* process built as bld.
WatermarkBufferFactory_construct(T, bld) ==
  /\ factory_status = "none"
  /\ LET c == WatermarkBufferFactory_ctor(T)
     IN /\ build' = bld
        /\ account_tracking_threshold_bytes' = T
        /\ bitshift_' = c.bitshift_
        /\ factory_status' = IF c.ok THEN "alive" ELSE "crashed"
  /\ aop' = <<"WatermarkBufferFactory">>
  /\ UNCHANGED <<bvars, xvars, size_class_account_sets_, static_bitshift,
                 accounts, asserted, events, charged, credited, nops, s3>>

\* Accounts are numbered in the order of their creation.
createAccountCall(a) ==
  /\ Running
  /\ ~accounts[a].live
  /\ \A b \in 1..(a - 1) : accounts[b].live
  /\ AReturn(<<"createAccount", a>>, createAccount(World, a))
  /\ s3' = IF account_tracking_threshold_bytes = Bits(0) THEN 0 ELSE -1
  /\ UNCHANGED <<charged, credited, nops>>

chargeCall(a, amount) ==
  /\ Running
  /\ accounts[a].live
  /\ LET w == charge(World, a, amount)
     IN /\ AReturn(<<"charge", a, amount>>, w)
        /\ s3' = S3Next("charge", amount, w)

creditCall(a, amount) ==
  /\ Running
  /\ accounts[a].live
  /\ LET w == credit(World, a, amount)
     IN /\ AReturn(<<"credit", a, amount>>, w)
        /\ s3' = S3Next("credit", amount, w)

\* The number of charge / credit calls made and the sums of the amounts
\* charged and credited by the calls that returned.
Tally(a, charge_amount, credit_amount) ==
  /\ nops' = nops + 1
  /\ charged' = IF asserted' = "none"
                THEN [charged EXCEPT ![a] = AddW(@, Wide(charge_amount))]
                ELSE charged
  /\ credited' = IF asserted' = "none"
                 THEN [credited EXCEPT ![a] = AddW(@, Wide(credit_amount))]
                 ELSE credited

clearDownstreamCall(a) ==
  /\ Running
  /\ accounts[a].live
  /\ AReturn(<<"clearDownstream", a>>, clearDownstream(World, a))
  /\ s3' = -1
  /\ UNCHANGED <<charged, credited, nops>>

resetDownstreamCall(a, inline) ==
  /\ Running
  /\ accounts[a].live
  /\ AReturn(<<"resetDownstream", a>>, resetDownstream(World, a, inline))
  /\ s3' = -1
  /\ UNCHANGED <<charged, credited, nops>>

resetAllAccountsInBucketsStartingWithCall(bucket_idx, order, inline) ==
  /\ Running
  /\ AReturn(<<"resetAllAccountsInBucketsStartingWith", bucket_idx>>,
             resetAllAccountsInBucketsStartingWith(World, bucket_idx, order, inline))
  /\ s3' = -1
  /\ UNCHANGED <<charged, credited, nops>>

\* The factory is destroyed.
WatermarkBufferFactory_destroy ==
  /\ Running
  /\ asserted' = WatermarkBufferFactory_dtor(World).asserted
  /\ factory_status' = "destroyed"
  /\ aop' = <<"~WatermarkBufferFactory">>
  /\ events' = <<>>
  /\ s3' = -1
  /\ UNCHANGED <<bvars, xvars, build, account_tracking_threshold_bytes,
                 bitshift_, size_class_account_sets_, static_bitshift, accounts,
                 charged, credited, nops>>

\* ---------------------------------------------------------------------------
\* One account: charges and credits
\* ---------------------------------------------------------------------------

\* Number of charge / credit calls made on the account.
MaxOps == 5

\* account_tracking_threshold_bytes of the configuration.
Thresholds ==
  {Bits(0), Bits(1), Bits(2), Bits(3), Bits(6), Pow2(14), Pow2(63), UINT64_MAX}

\* Amounts charged and credited.
Amounts ==
  {Bits(1), Pow2(17), Pow2(18), Pow2(25), Sub64(UINT64_MAX, Pow2(17))}

AcctConstruct ==
  \E T \in Thresholds, bld \in {"debug", "release"} :
    WatermarkBufferFactory_construct(T, bld)

AcctCreate == createAccountCall(1)

AcctCharge ==
  \E amount \in Amounts :
    nops < MaxOps /\ chargeCall(1, amount) /\ Tally(1, amount, Bits(0))

AcctCredit ==
  \E amount \in Amounts :
    nops < MaxOps /\ creditCall(1, amount) /\ Tally(1, Bits(0), amount)

NextAcct ==
  \/ AcctConstruct
  \/ AcctCreate
  \/ AcctCharge
  \/ AcctCredit

SpecAcct == Init /\ [][NextAcct]_vars

\* ---------------------------------------------------------------------------
\* Several accounts: buckets and shedding
\* ---------------------------------------------------------------------------

\* Balances the charges and credits bring the accounts to: with a threshold
\* of 2 bytes a balance of 16 is in bucket 3, 64 in bucket 5, 256 in bucket 7.
ShedBalances == {Bits(0), Bits(16), Bits(64), Bits(256)}

\* Iteration orders of a bucket set.
Orders == {<<1, 2, 3>>, <<3, 2, 1>>}

ShedConstruct ==
  \E bld \in {"debug", "release"} : WatermarkBufferFactory_construct(Bits(2), bld)

ShedCreate == \E a \in Accts : createAccountCall(a)

\* A charge that raises the balance to one of ShedBalances.
ShedCharge ==
  \E a \in Accts, target \in ShedBalances :
    /\ accounts[a].live
    /\ target # accounts[a].buffer_memory_allocated_
    /\ Geq(target, accounts[a].buffer_memory_allocated_)
    /\ chargeCall(a, Sub64(target, accounts[a].buffer_memory_allocated_))
    /\ UNCHANGED <<charged, credited, nops>>

\* A credit that lowers the balance to one of ShedBalances.
ShedCredit ==
  \E a \in Accts, target \in ShedBalances :
    /\ accounts[a].live
    /\ target # accounts[a].buffer_memory_allocated_
    /\ Geq(accounts[a].buffer_memory_allocated_, target)
    /\ creditCall(a, Sub64(accounts[a].buffer_memory_allocated_, target))
    /\ UNCHANGED <<charged, credited, nops>>

ShedClearDownstream == \E a \in Accts : clearDownstreamCall(a)

ShedResetDownstream ==
  \E a \in Accts : \E inline \in SUBSET {a} : resetDownstreamCall(a, Own(inline))

\* The accounts in the bucket sets bucket_idx and above.
AtOrAbove(bucket_idx) ==
  UNION {size_class_account_sets_[i] : i \in bucket_idx..(NUM_MEMORY_CLASSES_ - 1)}

\* Only the streams of the accounts the walk visits are reset.
ShedResetAll ==
  \E bucket_idx \in 0..(NUM_MEMORY_CLASSES_ - 1), order \in Orders :
    \E inline \in SUBSET AtOrAbove(bucket_idx) :
      resetAllAccountsInBucketsStartingWithCall(bucket_idx, order, Own(inline))

ShedDestroy == WatermarkBufferFactory_destroy

NextShed ==
  \/ ShedConstruct
  \/ ShedCreate
  \/ ShedCharge
  \/ ShedCredit
  \/ ShedClearDownstream
  \/ ShedResetDownstream
  \/ ShedResetAll
  \/ ShedDestroy

SpecShed == Init /\ [][NextShed]_vars

\* ---------------------------------------------------------------------------
\* Reset callbacks that destroy other streams
\* ---------------------------------------------------------------------------

\* A shedding walk in which the reset callbacks of the stream of one visited
\* account c also destroy the stream of a tracked account d.
HandlersResetAll ==
  \E bucket_idx \in 0..(NUM_MEMORY_CLASSES_ - 1), order \in Orders :
    \E inline \in SUBSET AtOrAbove(bucket_idx), c \in AtOrAbove(bucket_idx),
       d \in AtOrAbove(0) :
      resetAllAccountsInBucketsStartingWithCall(bucket_idx, order,
                                                Own(inline) \cup {<<c, d>>})

NextHandlers ==
  \/ ShedConstruct
  \/ ShedCreate
  \/ ShedCharge
  \/ HandlersResetAll

SpecHandlers == Init /\ [][NextHandlers]_vars

\* ---------------------------------------------------------------------------
\* Several factories in one process
\* ---------------------------------------------------------------------------

\* account_tracking_threshold_bytes of the factories: bitshift 1 and 4.
FacThresholds == {Bits(2), Bits(16)}

\* Balances the charges and credits bring the accounts to.
FacBalances == {Bits(0), Bits(16), Bits(64)}

\* Accounts the factories create.
FacAccts == 1..2

\* The world an operation on an account of factory f runs in.
WorldOf(f) ==
  [World EXCEPT !.bitshift_ = factories[f].bitshift_,
                !.sets = factories[f].size_class_account_sets_]

\* The operation o on an account of factory f returns, leaving the world as w.
FReturn(o, f, w) ==
  /\ factories' = [factories EXCEPT ![f].size_class_account_sets_ = w.sets]
  /\ static_bitshift' = w.static
  /\ accounts' = w.accounts
  /\ asserted' = w.asserted
  /\ events' = w.events
  /\ aop' = o
  /\ UNCHANGED <<bvars, tvars, cvars, build, factory_status,
                 account_tracking_threshold_bytes, bitshift_,
                 size_class_account_sets_, charged, credited, nops, s3>>

\* Factory f is constructed with threshold T; all factories of the process
\* are built alike.
FacConstruct ==
  \E f \in Factories, T \in FacThresholds, bld \in {"debug", "release"} :
    /\ factories[f].status = "none"
    /\ asserted = "none"
    /\ build \in {"none", bld}
    /\ LET c == WatermarkBufferFactory_ctor(T)
       IN factories' = [factories EXCEPT
                          ![f].status = IF c.ok THEN "alive" ELSE "crashed",
                          ![f].bitshift_ = c.bitshift_]
    /\ build' = bld
    /\ aop' = <<"WatermarkBufferFactory", f>>
    /\ UNCHANGED <<bvars, tvars, cvars, factory_, factory_status,
                   account_tracking_threshold_bytes,
                   bitshift_, size_class_account_sets_, static_bitshift, accounts,
                   asserted, events, charged, credited, nops, s3>>

\* WatermarkBufferFactory::createAccount on factory f: factory_ of the new
\* account is f.
FacCreate ==
  \E f \in Factories, a \in FacAccts :
    /\ factories[f].status = "alive"
    /\ asserted = "none"
    /\ ~accounts[a].live
    /\ \A b \in 1..(a - 1) : accounts[b].live
    /\ factory_' = [factory_ EXCEPT ![a] = f]
    /\ FReturn(<<"createAccount", a>>, f, createAccount(WorldOf(f), a))

FacCharge ==
  \E a \in FacAccts, target \in FacBalances :
    /\ asserted = "none"
    /\ accounts[a].live
    /\ target # accounts[a].buffer_memory_allocated_
    /\ Geq(target, accounts[a].buffer_memory_allocated_)
    /\ LET amount == Sub64(target, accounts[a].buffer_memory_allocated_)
       IN FReturn(<<"charge", a, amount>>, factory_[a],
                  charge(WorldOf(factory_[a]), a, amount))
    /\ UNCHANGED factory_

FacCredit ==
  \E a \in FacAccts, target \in FacBalances :
    /\ asserted = "none"
    /\ accounts[a].live
    /\ target # accounts[a].buffer_memory_allocated_
    /\ Geq(accounts[a].buffer_memory_allocated_, target)
    /\ LET amount == Sub64(accounts[a].buffer_memory_allocated_, target)
       IN FReturn(<<"credit", a, amount>>, factory_[a],
                  credit(WorldOf(factory_[a]), a, amount))
    /\ UNCHANGED factory_

FacClearDownstream ==
  \E a \in FacAccts :
    /\ asserted = "none"
    /\ accounts[a].live
    /\ FReturn(<<"clearDownstream", a>>, factory_[a],
               clearDownstream(WorldOf(factory_[a]), a))
    /\ UNCHANGED factory_

\* resetAllAccountsInBucketsStartingWith on factory f; the streams of the
\* accounts in inline clear their account before resetStream returns.
FacResetAll ==
  \E f \in Factories, bucket_idx \in 0..(NUM_MEMORY_CLASSES_ - 1), order \in Orders :
    \E inline \in SUBSET UNION {factories[f].size_class_account_sets_[i] :
                                  i \in bucket_idx..(NUM_MEMORY_CLASSES_ - 1)} :
      /\ factories[f].status = "alive"
      /\ asserted = "none"
      /\ FReturn(<<"resetAllAccountsInBucketsStartingWith", bucket_idx, f>>, f,
                 resetAllAccountsInBucketsStartingWith(WorldOf(f), bucket_idx,
                                                       order, Own(inline)))
      /\ UNCHANGED factory_

NextFactories ==
  \/ FacConstruct
  \/ FacCreate
  \/ FacCharge
  \/ FacCredit
  \/ FacClearDownstream
  \/ FacResetAll

SpecFactories == Init /\ [][NextFactories]_vars

\* ---------------------------------------------------------------------------
\* Buffers bound to accounts
\* ---------------------------------------------------------------------------

\* Largest number of bytes held by all buffers together.
MaxBytes == 2

\* Accounts the streams create.
BindAccts == 1..2

\* The buffers, the streams and the members of the tracked factory as one
\* record, threaded through the calls of one operation next to the world.
Tracked ==
  [buffers |-> buffers,
   stream_account_ |-> stream_account_,
   destructed |-> destructed,
   active_buffer_count_ |-> active_buffer_count_,
   account_infos_ |-> account_infos_,
   actively_bound_buffers_ |-> actively_bound_buffers_]

\* The live buffers of t bound to account a.
BoundTo(t, a) ==
  {b \in Bufs : t.buffers[b].state = "live" /\ t.buffers[b].account_ = a}

\* use_count() of account a, the caller's local copies not counted: the
\* stream, shared_this_, the bucket set entry, the bound buffers and the key
\* of account_infos_.
use_count(w, t, a) ==
  (IF t.stream_account_[a] THEN 1 ELSE 0)
  + (IF w.accounts[a].shared_this_ THEN 1 ELSE 0)
  + (IF \E i \in 0..(NUM_MEMORY_CLASSES_ - 1) : a \in w.sets[i] THEN 1 ELSE 0)
  + Cardinality(BoundTo(t, a))
  + (IF a \in DOMAIN t.account_infos_ THEN 1 ELSE 0)

\* account_infos_[a]: the entry is created empty when it is absent.
Entry(infos, a) == IF a \in DOMAIN infos THEN infos[a] ELSE {}

\* account_infos_ with the entry of a set to S.
WithEntry(infos, a, S) ==
  [x \in DOMAIN infos \cup {a} |-> IF x = a THEN S ELSE infos[x]]

\* account_infos_.erase(a)
WithoutEntry(infos, a) == [x \in DOMAIN infos \ {a} |-> infos[x]]

\* ~BufferMemoryAccountImpl() of account a once nothing holds it.
MaybeDestruct(p, a) ==
  IF p.w.asserted # "none" \/ a \in p.t.destructed \/ use_count(p.w, p.t, a) # 0
  THEN p
  ELSE [w |-> ASSERT_(p.w, p.w.accounts[a].buffer_memory_allocated_ = Bits(0),
                      "~BufferMemoryAccountImpl"),
        t |-> [p.t EXCEPT !.destructed = @ \cup {a}]]

\* on_bind that does not record the buffer as bound.
on_bind_norecord(p, a, b) ==
  LET w1 == ASSERT_(p.w, b \notin p.t.actively_bound_buffers_, "on_bind: bound twice")
  IN IF w1.asserted # "none" THEN [p EXCEPT !.w = w1]
     ELSE [p EXCEPT !.t.account_infos_ =
                      WithEntry(@, a, Entry(@, a) \cup {b})]

\* The on_bind closure of TrackedWatermarkBufferFactory::create.
on_bind(p, a, b) ==
  LET w1 == ASSERT_(p.w, b \notin p.t.actively_bound_buffers_, "on_bind: bound twice")
  IN IF w1.asserted # "none" THEN [p EXCEPT !.w = w1]
     ELSE [p EXCEPT !.t.account_infos_ =
                      WithEntry(@, a, Entry(@, a) \cup {b}),
                    !.t.actively_bound_buffers_ = @ \cup {b}]

\* OwnedImpl::bindAccount: the buffer takes its account.  On a buffer that
\* has one the behaviour is not defined: the buffer keeps its account or
\* takes the new one.
OwnedImpl_bindAccount(p, a, b, keep) ==
  IF p.w.asserted # "none" THEN p
  ELSE IF p.t.buffers[b].account_ = 0
  THEN [p EXCEPT !.t.buffers[b].account_ = a]
  ELSE [p EXCEPT !.w.asserted = "undefined: bindAccount on a bound buffer",
                 !.t.buffers[b].account_ = IF keep THEN @ ELSE a]

\* TrackedWatermarkBuffer::bindAccount
bindAccount(p, a, b, keep) == OwnedImpl_bindAccount(on_bind(p, a, b), a, b, keep)

\* The on_delete closure of TrackedWatermarkBufferFactory::create.  The
\* erasures are arguments of ASSERT: a build without ASSERT does not make them.
on_delete(p, b) ==
  LET w1 == ASSERT_(p.w, p.t.active_buffer_count_ > 0, "on_delete: no active buffer")
      account == p.t.buffers[b].account_
  IN IF w1.asserted # "none" THEN [p EXCEPT !.w = w1]
     ELSE
       LET t1 == [p.t EXCEPT !.active_buffer_count_ = @ - 1]
       IN IF account = 0 THEN [w |-> w1, t |-> t1]
          ELSE
            LET set == Entry(t1.account_infos_, account)
                erases == w1.build = "debug"
                set2 == IF erases THEN set \ {b} ELSE set
                w2 == ASSERT_(w1, b \in set, "on_delete: set.erase")
                w3 == ASSERT_(w2, b \in t1.actively_bound_buffers_,
                              "on_delete: actively_bound_buffers_.erase")
                t2 == [t1 EXCEPT !.account_infos_ = WithEntry(@, account, set2),
                                 !.actively_bound_buffers_ =
                                   IF erases THEN @ \ {b} ELSE @]
                t3 == IF erases
                      THEN [t2 EXCEPT !.account_infos_ = WithoutEntry(@, account)]
                      ELSE t2
            IN IF set2 # {} THEN [w |-> w3, t |-> t2]
               ELSE [w |-> ASSERT_(w3, use_count(w3, t3, account) + 1 = 2,
                                   "on_delete: use_count"),
                     t |-> t3]

\* Growth of buffer b by n bytes: a bound buffer charges its account.
OwnedImpl_add(p, b, n) ==
  LET account == p.t.buffers[b].account_
      t1 == [p.t EXCEPT !.buffers[b].length = @ + n]
  IN [w |-> IF account # 0 THEN charge(p.w, account, Bits(n)) ELSE p.w, t |-> t1]

\* Shrinkage of buffer b by n bytes: a bound buffer credits its account.
OwnedImpl_drain(p, b, n) ==
  LET account == p.t.buffers[b].account_
      t1 == [p.t EXCEPT !.buffers[b].length = @ - n]
  IN [w |-> IF account # 0 THEN credit(p.w, account, Bits(n)) ELSE p.w, t |-> t1]

\* OwnedImpl::move(rhs, length): n bytes leave buffer rhs, whose account is
\* credited, and enter buffer b, whose account is charged.
OwnedImpl_move(p, b, rhs, n) == OwnedImpl_add(OwnedImpl_drain(p, rhs, n), b, n)

\* ~OwnedImpl(): the buffer credits what it holds to its account and drops
\* the account, which is destructed when nothing else holds it.
OwnedImpl_dtor(p, b) ==
  LET account == p.t.buffers[b].account_
      p1 == OwnedImpl_drain(p, b, p.t.buffers[b].length)
      p2 == [p1 EXCEPT !.t.buffers[b] =
                         [state |-> "destroyed", length |-> 0, account_ |-> 0]]
  IN IF account # 0 THEN MaybeDestruct(p2, account) ELSE p2

\* ~TrackedWatermarkBuffer(): on_delete_(this), then the base destructors.
TrackedWatermarkBuffer_dtor(p, b) ==
  LET p1 == on_delete(p, b)
  IN IF p1.w.asserted # "none" THEN p1 ELSE OwnedImpl_dtor(p1, b)

\* ~MockStream(): the stream clears the downstream of its account and drops
\* the account.
MockStream_dtor(p, a) ==
  MaybeDestruct([w |-> clearDownstream(p.w, a),
                 t |-> [p.t EXCEPT !.stream_account_[a] = FALSE]], a)

\* The operation o returns, leaving the world and the tracked state as p.
BReturn(o, p) ==
  /\ size_class_account_sets_' = p.w.sets
  /\ static_bitshift' = p.w.static
  /\ accounts' = p.w.accounts
  /\ asserted' = p.w.asserted
  /\ events' = p.w.events
  /\ aop' = o
  /\ buffers' = p.t.buffers
  /\ stream_account_' = p.t.stream_account_
  /\ destructed' = p.t.destructed
  /\ active_buffer_count_' = p.t.active_buffer_count_
  /\ account_infos_' = p.t.account_infos_
  /\ actively_bound_buffers_' = p.t.actively_bound_buffers_
  /\ UNCHANGED <<bvars, cvars, factories, factory_, build, factory_status,
                 account_tracking_threshold_bytes, bitshift_, charged, credited,
                 nops, s3>>

RECURSIVE SumLengths(_)
\* The bytes held by the buffers of S.
SumLengths(S) ==
  IF S = {} THEN 0
  ELSE LET b == CHOOSE x \in S : TRUE
       IN buffers[b].length + SumLengths(S \ {b})

\* The state the calls of an operation start from.
Here == [w |-> World, t |-> Tracked]

Live(b) == buffers[b].state = "live"

BindConstruct ==
  \E bld \in {"debug", "release"} : WatermarkBufferFactory_construct(Bits(2), bld)

\* A stream creates its account and holds it.
BindCreateAccount ==
  \E a \in BindAccts :
    /\ Running
    /\ ~accounts[a].live
    /\ \A c \in 1..(a - 1) : accounts[c].live
    /\ BReturn(<<"createAccount", a>>,
               [w |-> createAccount(World, a),
                t |-> [Tracked EXCEPT !.stream_account_[a] = TRUE]])

\* TrackedWatermarkBufferFactory::create; buffers are numbered in the order
\* of their creation.
BufCreate ==
  \E b \in Bufs :
    /\ Running
    /\ buffers[b].state = "none"
    /\ \A c \in 1..(b - 1) : buffers[c].state # "none"
    /\ BReturn(<<"create", b>>,
               [w |-> World,
                t |-> [Tracked EXCEPT
                         !.buffers[b] = [state |-> "live", length |-> 0, account_ |-> 0],
                         !.active_buffer_count_ = @ + 1]])

\* The codec binds the account of a stream to a buffer: to a new, empty
\* buffer, or once more to a buffer that has an account.
BufBind ==
  \E b \in Bufs, a \in BindAccts, keep \in BOOLEAN :
    /\ Running
    /\ Live(b)
    /\ accounts[a].live
    /\ stream_account_[a]
    /\ buffers[b].account_ # 0 \/ buffers[b].length = 0
    /\ BReturn(<<"bindAccount", b, a>>, bindAccount(Here, a, b, keep))

BufAdd ==
  \E b \in Bufs, n \in 1..MaxBytes :
    /\ Running
    /\ Live(b)
    /\ SumLengths(Bufs) + n <= MaxBytes
    /\ BReturn(<<"add", b>>, OwnedImpl_add(Here, b, n))

BufDrain ==
  \E b \in Bufs, n \in 1..MaxBytes :
    /\ Running
    /\ Live(b)
    /\ n <= buffers[b].length
    /\ BReturn(<<"drain", b>>, OwnedImpl_drain(Here, b, n))

\* b.move(rhs, n)
BufMove ==
  \E b \in Bufs, rhs \in Bufs, n \in 1..MaxBytes :
    /\ Running
    /\ b # rhs
    /\ Live(b)
    /\ Live(rhs)
    /\ n <= buffers[rhs].length
    /\ BReturn(<<"move", b, rhs>>, OwnedImpl_move(Here, b, rhs, n))

BufDestroy ==
  \E b \in Bufs :
    /\ Running
    /\ Live(b)
    /\ BReturn(<<"~TrackedWatermarkBuffer", b>>, TrackedWatermarkBuffer_dtor(Here, b))

\* The stream of account a completes.
StreamDone ==
  \E a \in BindAccts :
    /\ Running
    /\ stream_account_[a]
    /\ BReturn(<<"~MockStream", a>>, MockStream_dtor(Here, a))

NextBind ==
  \/ BindConstruct
  \/ BindCreateAccount
  \/ BufCreate
  \/ BufBind
  \/ BufAdd
  \/ BufDrain
  \/ BufMove
  \/ BufDestroy
  \/ StreamDone

SpecBind == Init /\ [][NextBind]_vars

\* ---------------------------------------------------------------------------
\* Workers and a coordinator on one factory
\* ---------------------------------------------------------------------------

\* Balances the charges and credits of the workers bring their accounts to.
ThrBalances == {Bits(0), Bits(16), Bits(64)}

\* The bucket sets the call with result r changes.
Touched(r) ==
  {i \in 0..(NUM_MEMORY_CLASSES_ - 1) : r.sets[i] # size_class_account_sets_[i]}

\* Some other worker is changing one of the sets I.
MidTransition(t, I) ==
  \E u \in Workers \ {t} : pc[u] # "idle" /\ pending[u].touched \cap I # {}

\* Worker t enters the call o on its account, whose effect on the state read
\* now is r and whose statements before the call into the factory leave the
\* account as early.  Nothing orders the accesses of the threads to a bucket
\* set: the call reads the sets it changes now and writes them when it
\* finishes.  A call that changes no set is over at once.
WorkerBegin(t, o, r, early) ==
  /\ static_bitshift' = r.static
  /\ asserted' = r.asserted
  /\ events' = r.events
  /\ aop' = o
  /\ IF Touched(r) = {} \/ r.asserted # "none"
     THEN /\ accounts' = r.accounts
          /\ UNCHANGED <<pc, pending, raced>>
     ELSE /\ accounts' = [accounts EXCEPT ![t] = early]
          /\ pc' = [pc EXCEPT ![t] = o[1]]
          /\ pending' = [pending EXCEPT ![t] =
                           [account |-> t, touched |-> Touched(r),
                            sets |-> r.sets, acct |-> r.accounts[t]]]
          /\ raced' = (raced \/ MidTransition(t, Touched(r)))
  /\ UNCHANGED <<bvars, tvars, factories, factory_, build, factory_status,
                 account_tracking_threshold_bytes, bitshift_,
                 size_class_account_sets_, charged, credited, nops, s3>>

\* Worker t finishes its call: it writes the sets it changes.
WorkerFinish ==
  \E t \in Workers :
    /\ Running
    /\ pc[t] # "idle"
    /\ size_class_account_sets_' =
         [i \in 0..(NUM_MEMORY_CLASSES_ - 1) |->
            IF i \in pending[t].touched THEN pending[t].sets[i]
            ELSE size_class_account_sets_[i]]
    /\ accounts' = [accounts EXCEPT ![t] = pending[t].acct]
    /\ pc' = [pc EXCEPT ![t] = "idle"]
    /\ pending' = [pending EXCEPT ![t] = NoCall]
    /\ aop' = <<"return", t>>
    /\ events' = <<>>
    /\ UNCHANGED <<bvars, tvars, factories, factory_, raced, build, factory_status,
                   account_tracking_threshold_bytes, bitshift_, static_bitshift,
                   asserted, charged, credited, nops, s3>>

ThrConstruct ==
  \E bld \in {"debug", "release"} : WatermarkBufferFactory_construct(Bits(2), bld)

ThrCreate == \E a \in Workers : createAccountCall(a)

\* Worker t charges its account up to one of ThrBalances.
ThrCharge ==
  \E t \in Workers, target \in ThrBalances :
    /\ Running
    /\ pc[t] = "idle"
    /\ accounts[t].live
    /\ target # accounts[t].buffer_memory_allocated_
    /\ Geq(target, accounts[t].buffer_memory_allocated_)
    /\ WorkerBegin(t, <<"charge", t>>,
                   charge(World, t, Sub64(target, accounts[t].buffer_memory_allocated_)),
                   [accounts[t] EXCEPT !.buffer_memory_allocated_ = target])

\* Worker t credits its account down to one of ThrBalances.
ThrCredit ==
  \E t \in Workers, target \in ThrBalances :
    /\ Running
    /\ pc[t] = "idle"
    /\ accounts[t].live
    /\ target # accounts[t].buffer_memory_allocated_
    /\ Geq(accounts[t].buffer_memory_allocated_, target)
    /\ WorkerBegin(t, <<"credit", t>>,
                   credit(World, t, Sub64(accounts[t].buffer_memory_allocated_, target)),
                   [accounts[t] EXCEPT !.buffer_memory_allocated_ = target])

\* Worker t clears the downstream of its account: reset_handler_ is reset
\* before the call into the factory.
ThrClearDownstream ==
  \E t \in Workers :
    /\ Running
    /\ pc[t] = "idle"
    /\ accounts[t].live
    /\ WorkerBegin(t, <<"clearDownstream", t>>, clearDownstream(World, t),
                   [accounts[t] EXCEPT !.reset_handler_ = FALSE])

\* The coordinator's walk reaches account a in its bucket set and calls
\* resetDownstream, which tests reset_handler_.
CoordinatorReset ==
  \E a \in Workers :
    /\ Running
    /\ pc[Coordinator] = "idle"
    /\ accounts[a].live
    /\ \E i \in 0..(NUM_MEMORY_CLASSES_ - 1) : a \in size_class_account_sets_[i]
    /\ raced' = (raced \/ MidTransition(Coordinator,
                   {i \in 0..(NUM_MEMORY_CLASSES_ - 1) : a \in size_class_account_sets_[i]}))
    /\ IF accounts[a].reset_handler_
       THEN /\ pc' = [pc EXCEPT ![Coordinator] = "resetDownstream"]
            /\ pending' = [pending EXCEPT ![Coordinator] = [account |-> a, touched |-> {}]]
       ELSE UNCHANGED <<pc, pending>>
    /\ aop' = <<"resetDownstream", a>>
    /\ events' = <<<<"resetDownstream", a>>>>
    /\ UNCHANGED <<bvars, tvars, factories, factory_, build, factory_status,
                   account_tracking_threshold_bytes, bitshift_,
                   size_class_account_sets_, static_bitshift, accounts, asserted,
                   charged, credited, nops, s3>>

\* resetDownstream calls resetStream on the handler it tested.  The handler
\* posts the reset to the worker.  A handler that clearDownstream has
\* released since the test is no longer there to be called.
CoordinatorInvoke ==
  /\ Running
  /\ pc[Coordinator] = "resetDownstream"
  /\ LET a == pending[Coordinator].account
     IN /\ aop' = <<"resetStream", a>>
        /\ IF accounts[a].reset_handler_
           THEN /\ events' = <<<<"resetStream", a>>>>
                /\ asserted' = asserted
           ELSE /\ events' = <<>>
                /\ asserted' = "undefined: reset handler invoked after its release"
  /\ pc' = [pc EXCEPT ![Coordinator] = "idle"]
  /\ pending' = [pending EXCEPT ![Coordinator] = NoCall]
  /\ UNCHANGED <<bvars, tvars, factories, factory_, raced, build, factory_status,
                 account_tracking_threshold_bytes, bitshift_,
                 size_class_account_sets_, static_bitshift, accounts, charged,
                 credited, nops, s3>>

NextThreads ==
  \/ ThrConstruct
  \/ ThrCreate
  \/ ThrCharge
  \/ ThrCredit
  \/ ThrClearDownstream
  \/ WorkerFinish
  \/ CoordinatorReset
  \/ CoordinatorInvoke

SpecThreads == Init /\ [][NextThreads]_vars

\* ---------------------------------------------------------------------------
\* Properties
\* ---------------------------------------------------------------------------

GrowthOps == {"add", "prepend", "commit", "move", "appendSliceForTest"}

ShrinkOps == {"drain", "extractMutableFrontSlice", "postProcess"}

\* The above_high / below_low invocations among seq, in order.
HL(seq) == SelectSeq(seq, LAMBDA c : c \in {"above_high", "below_low"})

\* No element of seq equals its predecessor, prev preceding the first.
Alternates(prev, seq) ==
  \A i \in 1..Len(seq) : seq[i] # (IF i = 1 THEN prev ELSE seq[i - 1])

\* C1: in every operation the invocations of above_high and below_low
\* continue a strictly alternating sequence that starts with above_high, and
\* after the operation highWatermarkTriggered() is true exactly when the last
\* of the two callbacks invoked so far is above_high.
C1_Alternation ==
  [][ /\ Alternates(IF last_hl = "none" THEN "below_low" ELSE last_hl, HL(calls'))
      /\ (above_high_watermark_called_' <=> last_hl' = "above_high") ]_vars

\* above_high fired anew in an add after an earlier above_high (the one that
\* accompanied above_overflow) had been released by below_low.
C1_Witness ==
  /\ op = "add"
  /\ calls = <<"above_high">>
  /\ above_overflow_watermark_called_
  /\ overflow_watermark_ = 0
  /\ last_hl = "above_high"

\* C2: while the high watermark stays enabled (high > 0 before and after the
\* operation), above_high is invoked, once, exactly in the operations that take
\* length from <= high to > high with the high latch clear.
C2_AboveHighOnCrossing ==
  [][ (high_watermark_ > 0 /\ high_watermark_' > 0) =>
        /\ Count(calls', "above_high") <= 1
        /\ (Count(calls', "above_high") = 1 <=>
              /\ ~above_high_watermark_called_
              /\ length <= high_watermark_
              /\ length' > high_watermark_') ]_vars

C2_Witness ==
  /\ op = "commit"
  /\ calls = <<"above_high">>
  /\ length > high_watermark_
  /\ ~above_overflow_watermark_called_

\* C3: below_low is invoked, once, exactly in the operations that start with
\* the high latch set and leave length <= low or the watermarks disabled;
\* setWatermarks(0) with the latch set invokes below_low once and clears the
\* latch.
C3_BelowLowOnRelease ==
  [][ /\ Count(calls', "below_low") <= 1
      /\ (Count(calls', "below_low") = 1 <=>
            /\ above_high_watermark_called_
            /\ (length' <= low_watermark_' \/ high_watermark_' = 0))
      /\ (op' = "setWatermarks" /\ high_watermark_' = 0 /\ above_high_watermark_called_
            => calls' = <<"below_low">> /\ ~above_high_watermark_called_') ]_vars

C3_Witness ==
  /\ op = "setWatermarks"
  /\ high_watermark_ = 0
  /\ calls = <<"below_low">>
  /\ length > 0
  /\ ~above_high_watermark_called_

\* C4: above_overflow is invoked at most once in the buffer's lifetime, only
\* in an operation that ends with overflow > 0 and length > overflow, and its
\* latch is never cleared, so it is not invoked again whatever happens later.
C4_OverflowOnce ==
  [][ /\ overflow_calls' <= 1
      /\ (Count(calls', "above_overflow") > 0 =>
            /\ overflow_watermark_' > 0
            /\ length' > overflow_watermark_'
            /\ ~above_overflow_watermark_called_)
      /\ (above_overflow_watermark_called_ =>
            /\ above_overflow_watermark_called_'
            /\ Count(calls', "above_overflow") = 0) ]_vars

\* After above_overflow fired once, a later operation took the buffer above
\* the overflow watermark again: above_high fired, above_overflow did not.
C4_Witness ==
  /\ overflow_calls = 1
  /\ calls = <<"above_high">>
  /\ overflow_watermark_ > 0
  /\ length > overflow_watermark_

\* C5: a growth operation that leaves length = high neither invokes above_high
\* nor changes the high latch, and one that leaves length = overflow does not
\* invoke above_overflow; a shrink operation that starts with the latch set and
\* leaves length = low invokes below_low and clears the latch.
C5_BoundaryAsymmetry ==
  [][ /\ (op' \in GrowthOps /\ high_watermark_' > 0 /\ length' = high_watermark_' =>
            /\ Count(calls', "above_high") = 0
            /\ above_high_watermark_called_' = above_high_watermark_called_)
      /\ (op' \in GrowthOps /\ overflow_watermark_' > 0 /\ length' = overflow_watermark_' =>
            Count(calls', "above_overflow") = 0)
      /\ (op' \in ShrinkOps /\ above_high_watermark_called_ /\ length' = low_watermark_' =>
            /\ calls' = <<"below_low">>
            /\ ~above_high_watermark_called_') ]_vars

C5_Witness ==
  /\ op = "drain"
  /\ high_watermark_ > 0
  /\ length = low_watermark_
  /\ calls = <<"below_low">>

\* C6 as stated: whenever high_watermark = 0 the high latch is clear and the
\* last operation invoked no callback.
C6_Original ==
  high_watermark_ = 0 => (~above_high_watermark_called_ /\ calls = <<>>)

\* C6 amended: after every operation that leaves high_watermark = 0 the high
\* latch is clear; an operation that starts and ends with high_watermark = 0
\* invokes no callback; the only callback an operation ending with
\* high_watermark = 0 invokes is the single below_low by which setWatermarks(0)
\* releases a set latch.
C6_Disabled ==
  [][ /\ (high_watermark_' = 0 => ~above_high_watermark_called_')
      /\ (high_watermark_ = 0 /\ high_watermark_' = 0 => calls' = <<>>)
      /\ (high_watermark_' = 0 /\ calls' # <<>> =>
            /\ op' = "setWatermarks"
            /\ above_high_watermark_called_
            /\ calls' = <<"below_low">>) ]_vars

\* Bytes were added, without any callback, to a buffer whose watermarks were
\* disabled again after its high latch had been set and released.
C6_Witness ==
  /\ high_watermark_ = 0
  /\ setWatermarks_called
  /\ last_cb = "below_low"
  /\ op = "add"
  /\ length > 0
  /\ calls = <<>>

\* C7: on a buffer on which setWatermarks was never called no callback has
\* ever been invoked and highWatermarkTriggered() is false.
C7_NeverConfigured ==
  ~setWatermarks_called =>
    /\ calls = <<>>
    /\ last_cb = "none"
    /\ overflow_calls = 0
    /\ ~above_high_watermark_called_
    /\ ~above_overflow_watermark_called_

C7_Witness ==
  /\ ~setWatermarks_called
  /\ op = "drain"
  /\ length = 60

\* C8 as stated: in scenario S1 the first add(60) fires above_high, add(10)
\* and drain(15) fire nothing, drain(10) fires below_low, and the last add(60)
\* fires above_high.
C8_Original ==
  /\ (s1 = 1 => calls = <<"above_high">>)
  /\ (s1 \in {2, 3} => calls = <<>>)
  /\ (s1 = 4 => calls = <<"below_low">>)
  /\ (s1 = 5 => calls = <<"above_high">>)

\* C8 amended: in scenario S1 add(60) (length 60), add(10) (length 70),
\* drain(15) (length 55) and drain(10) (length 45) fire nothing and leave the
\* high latch clear; the last add(60) (length 105) fires above_high once, and
\* nothing else.
C8_ScenarioS1 ==
  /\ (s1 \in 1..4 => calls = <<>> /\ ~above_high_watermark_called_)
  /\ (s1 = 1 => length = 60)
  /\ (s1 = 2 => length = 70)
  /\ (s1 = 3 => length = 55)
  /\ (s1 = 4 => length = 45)
  /\ (s1 = 5 => /\ length = 105
                /\ calls = <<"above_high">>
                /\ above_high_watermark_called_)

C8_Witness == s1 = 5 /\ high_watermark_ = 100 /\ low_watermark_ = 50

\* C9 as stated: with high > 0 the high latch is set exactly when the most
\* recent of the three callbacks invoked was above_high.
C9_Original ==
  high_watermark_ > 0 =>
    (above_high_watermark_called_ <=> last_cb = "above_high")

\* C9 amended: with high > 0 the high latch is set exactly when the most
\* recent of the three callbacks invoked was above_high or above_overflow.
C9_LatchIffLastCallback ==
  high_watermark_ > 0 =>
    (above_high_watermark_called_ <=> last_cb \in {"above_high", "above_overflow"})

C9_Witness ==
  /\ high_watermark_ > 0
  /\ above_high_watermark_called_
  /\ last_cb = "above_overflow"
  /\ calls = <<>>

\* C10: when multiplier x high, computed in 64 bits, exceeds UINT32_MAX the
\* overflow watermark is 0 and above_overflow is not invoked under these
\* thresholds; a non-zero overflow watermark is the exact product.
C10_NoWrap ==
  LET p == Mul64(runtime_multiplier, high_watermark_)
  IN /\ (ExceedsUint32(p) =>
           overflow_watermark_ = 0 /\ Count(calls, "above_overflow") = 0)
     /\ (overflow_watermark_ # 0 =>
           ~ExceedsUint32(p) /\ p = ToBytes(overflow_watermark_) \o <<0, 0, 0, 0>>)

\* The buffer grew beyond the value the wrapped product would have had, and
\* only above_high fired.
C10_Witness ==
  /\ ExceedsUint32(Mul64(runtime_multiplier, high_watermark_))
  /\ op = "add"
  /\ length > Mul32(runtime_multiplier, high_watermark_)
  /\ calls = <<"above_high">>
  /\ ~above_overflow_watermark_called_

\* C11: when the high watermark is enabled, reserveForRead requests at most
\* max(DEFAULT_SLICE_SIZE, high - length) bytes and never zero bytes.
C11_Original ==
  (op = "reserveForRead" /\ high_watermark_ > 0) =>
    /\ reservation > 0
    /\ \/ reservation <= default_slice_size_
       \/ reservation <= high_watermark_ - length

\* C11 (amended): when the high watermark is enabled, reserveForRead requests
\* at most max(DEFAULT_SLICE_SIZE, high - length rounded up to the next
\* multiple of DEFAULT_SLICE_SIZE) bytes and never zero bytes.
C11_RoundedHeadroom ==
  (op = "reserveForRead" /\ high_watermark_ > 0) =>
    /\ reservation > 0
    /\ \/ reservation <= default_slice_size_
       \/ \E k \in 1..(default_read_reservation_size_ \div default_slice_size_) :
            /\ reservation <= k * default_slice_size_
            /\ (k - 1) * default_slice_size_ < high_watermark_ - length

\* A reservation of two slices for a headroom of one slice and a quarter.
C11_Witness ==
  /\ op = "reserveForRead"
  /\ high_watermark_ = 16384
  /\ length = 11264
  /\ reservation = 8192

Balance(a) == accounts[a].buffer_memory_allocated_

Bucket(a) == accounts[a].current_bucket_idx_

\* The bucket sets account a is a member of.
SetsOf(a) == {i \in 0..(NUM_MEMORY_CLASSES_ - 1) : a \in size_class_account_sets_[i]}

\* The sum of the balance and the amount exceeds the 64-bit range.
Overflows(balance, amount) == AddWide(balance, amount)[5] # 0

\* balance + sum of credits = sum of charges, as naturals.
ExactBalance(a) == AddW(credited[a], Wide(Balance(a))) = charged[a]

\* balance + sum of credits = sum of charges, modulo 2^64.
ModularBalance(a) ==
  Low64(AddW(credited[a], Wide(Balance(a)))) = Low64(charged[a])

\* A charge or credit of account a steps as the amended C12 states.
C12_Step(a) ==
  LET n == aop'[3]
      balance == Balance(a)
      balance2 == accounts'[a].buffer_memory_allocated_
  IN /\ (aop'[1] = "credit" /\ Geq(balance, n)) =>
          asserted' = "none" /\ Add64(balance2, n) = balance /\ Geq(balance, balance2)
     /\ (aop'[1] = "charge" /\ ~Overflows(balance, n)) =>
          asserted' = "none" /\ AddWide(balance, n) = AddWide(balance2, Bits(0))
     /\ (aop'[1] = "credit" /\ ~Geq(balance, n) /\ build = "debug") =>
          asserted' = "credit" /\ accounts' = accounts
     /\ (aop'[1] = "charge" /\ Overflows(balance, n) /\ build = "debug") =>
          asserted' = "charge" /\ accounts' = accounts
     /\ (aop'[1] = "credit" /\ ~Geq(balance, n) /\ build = "release") =>
          asserted' = "none" /\ balance2 = Sub64(balance, n) /\ ~Geq(balance, balance2)
     /\ (aop'[1] = "charge" /\ Overflows(balance, n) /\ build = "release") =>
          asserted' = "none" /\ balance2 = Add64(balance, n) /\ ~Geq(balance2, balance)

\* C12: the balance is the sum of the charges minus the sum of the credits
\* and never negative; a credit beyond the balance and a charge beyond the
\* 64-bit range trip their assertion and leave the balance as it was.
C12_Original ==
  /\ [](\A a \in Accts : accounts[a].live => ExactBalance(a))
  /\ [][\A a \in Accts :
          (nops' # nops /\ aop'[2] = a) =>
            /\ (aop'[1] = "credit" /\ ~Geq(Balance(a), aop'[3])) =>
                 asserted' = "credit" /\ accounts' = accounts
            /\ (aop'[1] = "charge" /\ Overflows(Balance(a), aop'[3])) =>
                 asserted' = "charge" /\ accounts' = accounts]_vars

\* C12 (amended): in a build with ASSERT enabled the balance is the sum of
\* the charges minus the sum of the credits and never negative, and a credit
\* beyond the balance or a charge beyond the 64-bit range trips its assertion
\* and leaves the balance as it was.  In a build without ASSERT such a credit
\* or charge wraps the balance modulo 2^64, so the balance is the sum of the
\* charges minus the sum of the credits only modulo 2^64.
C12_AssertOrWrap ==
  /\ [](\A a \in Accts : accounts[a].live =>
          /\ ModularBalance(a)
          /\ build = "debug" => ExactBalance(a))
  /\ [][\A a \in Accts :
          (nops' # nops /\ aop'[2] = a) => C12_Step(a)]_vars

\* A debug build has tripped the assertion of credit on a positive balance.
C12_Witness ==
  /\ build = "debug"
  /\ asserted = "credit"
  /\ aop[1] = "credit"
  /\ accounts[1].live
  /\ Balance(1) # Bits(0)
  /\ ~Geq(Balance(1), aop[3])

\* The class of a balance under a bitshift, by power-of-two bands.
Band(balance, bitshift) ==
  LET Above == {i \in 0..(NUM_MEMORY_CLASSES_ - 1) :
                  bitshift + i < 64 /\ Geq(balance, Pow2(bitshift + i))}
  IN IF Above = {} THEN NoClass ELSE CHOOSE i \in Above : \A j \in Above : j <= i

\* C13: the class of a balance is none when balance >> bitshift is 0 and
\* otherwise min(floor(log2(balance >> bitshift)), 7): none or an index in
\* 0..7, saturating at 7.
C13_ClassOfBalance ==
  \A a \in Accts :
    (accounts[a].live /\ asserted = "none") =>
      /\ Bucket(a) \in {NoClass} \cup (0..(NUM_MEMORY_CLASSES_ - 1))
      /\ Bucket(a) = Band(Balance(a), bitshift_)
      /\ Bucket(a) = NoClass <=> ShiftRight(Balance(a), bitshift_) = Bits(0)

\* A balance beyond the band of the last class is in the last class.
C13_Witness ==
  /\ accounts[1].live
  /\ asserted = "none"
  /\ bitshift_ + NUM_MEMORY_CLASSES_ < 64
  /\ Geq(Balance(1), Pow2(bitshift_ + NUM_MEMORY_CLASSES_))
  /\ Bucket(1) = NUM_MEMORY_CLASSES_ - 1

\* C16: scenario S3 on a fresh account of a factory with the default
\* threshold: charge(128 KiB) leaves the bucket none, charge(128 KiB) puts
\* the account in bucket 0, charge(256 KiB) in bucket 1, charge(32 MiB) in
\* bucket 7, and credit(32 MiB) back in bucket 1.
C16_ScenarioS3 ==
  s3 >= 0 =>
    /\ asserted = "none"
    /\ account_tracking_threshold_bytes = Bits(0)
    /\ Bucket(1) = <<NoClass, NoClass, 0, 1, 7, 1>>[s3 + 1]
    /\ SetsOf(1) = {Bucket(1)} \ {NoClass}
    /\ Balance(1) = <<Bits(0), Pow2(17), Pow2(18), Pow2(19),
                      Add64(Pow2(25), Pow2(19)), Pow2(19)>>[s3 + 1]

\* The scenario has run to its end.
C16_Witness ==
  /\ s3 = Len(S3Script)
  /\ aop = <<"credit", 1, Pow2(25)>>
  /\ 1 \in size_class_account_sets_[1]

\* C17: a factory constructed with account_tracking_threshold_bytes = 0
\* uses bitshift 17.
C17_Original ==
  (factory_status = "alive" /\ account_tracking_threshold_bytes = Bits(0)) =>
    bitshift_ = 17

\* C17 (amended): a factory constructed with
\* account_tracking_threshold_bytes = 0 uses bitshift 18, which is
\* bit_width(256 KiB) - 1, so that an account is tracked exactly when its
\* balance is at least 256 KiB.
C17_DefaultBitshift ==
  (factory_status = "alive" /\ account_tracking_threshold_bytes = Bits(0)) =>
    /\ bitshift_ = 18
    /\ Pow2(bitshift_) = Bits(256 * 1024)
    /\ \A a \in Accts :
         (accounts[a].live /\ asserted = "none") =>
           (Bucket(a) # NoClass <=> Geq(Balance(a), Bits(256 * 1024)))

\* An account of a default factory with a balance of exactly 256 KiB.
C17_Witness ==
  /\ factory_status = "alive"
  /\ account_tracking_threshold_bytes = Bits(0)
  /\ accounts[1].live
  /\ asserted = "none"
  /\ Balance(1) = Bits(256 * 1024)
  /\ Bucket(1) = 0

\* The exponents n for which T = 2^n.
Log2Of(T) == {n \in 0..63 : T = Pow2(n)}

\* C18: construction fails for a threshold that is neither 0 nor a power of
\* two and succeeds for 0 and for every power of two T = 2^n, 1 included;
\* for T = 2^n the bitshift is n and an account is tracked exactly when its
\* balance is at least T.
C18_PowerOfTwoThreshold ==
  LET T == account_tracking_threshold_bytes
  IN factory_status # "none" =>
       /\ factory_status = "crashed" <=> (T # Bits(0) /\ Log2Of(T) = {})
       /\ factory_status = "alive" <=> (T = Bits(0) \/ Log2Of(T) # {})
       /\ (factory_status = "alive" /\ T # Bits(0)) =>
            /\ Log2Of(T) = {bitshift_}
            /\ \A a \in Accts :
                 (accounts[a].live /\ asserted = "none") =>
                   (Bucket(a) # NoClass <=> Geq(Balance(a), T))

\* An account of a factory with threshold 1 is tracked with a balance of 1.
C18_Witness ==
  /\ factory_status = "alive"
  /\ account_tracking_threshold_bytes = Bits(1)
  /\ bitshift_ = 0
  /\ accounts[1].live
  /\ asserted = "none"
  /\ Balance(1) = Bits(1)
  /\ Bucket(1) = 0

Buckets == 0..(NUM_MEMORY_CLASSES_ - 1)

\* min(bit_width(balance >> bitshift) - 1, NUM_BUCKETS - 1)
SetIndex(a) ==
  Min(bit_width(ShiftRight(Balance(a), bitshift_)) - 1, NUM_MEMORY_CLASSES_ - 1)

\* Account a is in exactly one bucket set, the one of its balance, when
\* balance >> bitshift > 0, and in none otherwise.
InSetOfBalance(a) ==
  /\ Cardinality(SetsOf(a)) = 1 <=> ShiftRight(Balance(a), bitshift_) # Bits(0)
  /\ Cardinality(SetsOf(a)) <= 1
  /\ \A i \in SetsOf(a) : i = SetIndex(a)

\* C14: after any sequence of charge, credit, clearDownstream and shedding
\* operations an account is in exactly one bucket set iff
\* balance >> bitshift > 0, and that set is the one of its balance.
C14_Original ==
  \A a \in Accts : (accounts[a].live /\ asserted = "none") => InSetOfBalance(a)

\* C14 (amended): an account whose downstream has not been cleared is in
\* exactly one bucket set iff balance >> bitshift > 0, and that set is the
\* one of its balance; an account whose downstream has been cleared, by
\* clearDownstream or by a reset of its stream, is in no bucket set whatever
\* its balance.
C14_UntilDownstreamCleared ==
  \A a \in Accts :
    (accounts[a].live /\ asserted = "none") =>
      /\ accounts[a].shared_this_ => InSetOfBalance(a)
      /\ ~accounts[a].shared_this_ => SetsOf(a) = {} /\ Bucket(a) = NoClass

\* An account with a balance of the last class after its downstream was
\* cleared, while another account is tracked.
C14_Witness ==
  /\ accounts[1].live
  /\ asserted = "none"
  /\ ~accounts[1].shared_this_
  /\ Balance(1) = Bits(256)
  /\ SetsOf(1) = {}
  /\ accounts[2].live
  /\ SetsOf(2) = {5}

\* C15: the bucket sets are pairwise disjoint, an account is in set i
\* exactly when its current bucket is i, and the union of the sets is the
\* set of the accounts that have a current bucket.
C15_SetsMirrorBuckets ==
  asserted = "none" =>
    /\ \A i, j \in Buckets :
         i # j => size_class_account_sets_[i] \cap size_class_account_sets_[j] = {}
    /\ \A a \in Accts, i \in Buckets :
         a \in size_class_account_sets_[i] <=> (accounts[a].live /\ Bucket(a) = i)
    /\ UNION {size_class_account_sets_[i] : i \in Buckets}
         = {a \in Accts : accounts[a].live /\ Bucket(a) # NoClass}

\* Two accounts share a bucket set after one of them moved there from
\* another set, and a third account is in a different set.
C15_Witness ==
  /\ asserted = "none"
  /\ aop = <<"charge", 2, Bits(48)>>
  /\ size_class_account_sets_[5] = {1, 2}
  /\ size_class_account_sets_[7] = {3}

\* The accounts on which the last operation called resetDownstream.
ResetAccounts(ev) == {ev[j][2] : j \in {i \in 1..Len(ev) : ev[i][1] = "resetDownstream"}}

\* The walk called resetDownstream once on every account of Hit, which
\* invoked the account's reset handler, and on no other account.
ResetExactly(ev, Hit) ==
  /\ ResetAccounts(ev) = Hit
  /\ Len(ev) = 2 * Cardinality(Hit)
  /\ \A j \in 1..Len(ev) :
       IF j % 2 = 1 THEN ev[j][1] = "resetDownstream"
       ELSE ev[j] = <<"resetStream", ev[j - 1][2]>>

C20_ClearDownstream ==
  [][\A a \in Accts :
       (aop' = <<"clearDownstream", a>> /\ accounts[a].reset_handler_) =>
         /\ asserted' = "none"
         /\ ~accounts'[a].reset_handler_
         /\ accounts'[a].current_bucket_idx_ = NoClass
         /\ ~accounts'[a].shared_this_
         /\ accounts'[a].buffer_memory_allocated_ = Balance(a)
         /\ \A i \in Buckets :
              size_class_account_sets_'[i] = size_class_account_sets_[i] \ {a}
         /\ \A b \in Accts \ {a} : accounts'[b] = accounts[b]]_vars

\* clearDownstream has taken a tracked account out of its bucket set.
C20_Witness ==
  /\ aop = <<"clearDownstream", 1>>
  /\ asserted = "none"
  /\ accounts[1].live
  /\ ~accounts[1].reset_handler_
  /\ Balance(1) = Bits(64)
  /\ Bucket(1) = NoClass
  /\ \A i \in Buckets : 1 \notin size_class_account_sets_[i]

\* The stream reset handlers invoked in the event sequence ev.
HandlersInvoked(ev) == {ev[j][2] : j \in {i \in 1..Len(ev) : ev[i][1] = "resetStream"}}

\* C21: the benign no-ops change nothing and invoke nothing: resetDownstream
\* on an account whose downstream was cleared invokes no reset handler and
\* leaves the accounts and the bucket sets as they were; the unregisterAccount
\* a clearDownstream makes for an account whose current bucket is none changes
\* no bucket set; a second clearDownstream changes neither the accounts nor
\* any bucket set; none of them fails an assertion.
C21_BenignNoOps ==
  [][\A a \in Accts :
       /\ (aop' = <<"resetDownstream", a>> /\ ~accounts[a].reset_handler_) =>
            /\ HandlersInvoked(events') = {}
            /\ accounts' = accounts
            /\ size_class_account_sets_' = size_class_account_sets_
            /\ asserted' = "none"
       /\ (aop' = <<"clearDownstream", a>> /\ Bucket(a) = NoClass) =>
            /\ size_class_account_sets_' = size_class_account_sets_
            /\ asserted' = "none"
       /\ (aop' = <<"clearDownstream", a>> /\ ~accounts[a].reset_handler_) =>
            /\ accounts' = accounts
            /\ size_class_account_sets_' = size_class_account_sets_
            /\ events' = <<>>
            /\ asserted' = "none"]_vars

\* resetDownstream was called on an account with a balance in bucket 5 whose
\* downstream had been cleared, while another account is tracked.
C21_Witness ==
  /\ aop = <<"resetDownstream", 1>>
  /\ asserted = "none"
  /\ accounts[1].live
  /\ ~accounts[1].reset_handler_
  /\ Balance(1) = Bits(64)
  /\ accounts[2].live
  /\ 2 \in size_class_account_sets_[3]

\* clearDownstream has been called on every account the factory created.
AllCleared == \A a \in Accts : accounts[a].live => ~accounts[a].reset_handler_

\* Some account is still in a bucket set.
SomeTracked == \E i \in Buckets : size_class_account_sets_[i] # {}

\* C22: when the factory is destroyed after clearDownstream was called on
\* every account it created, all bucket sets are empty and the destructor's
\* assertion holds; when an account is still tracked the destructor trips
\* the assertion.
C22_Original ==
  [][aop' = <<"~WatermarkBufferFactory">> =>
       /\ AllCleared => (~SomeTracked /\ asserted' = "none")
       /\ SomeTracked => asserted' # "none"]_vars

\* C22 (amended): when the factory is destroyed after clearDownstream was
\* called on every account it created, all bucket sets are empty and the
\* destructor's assertion holds whatever the balances; when an account is
\* still tracked the destructor trips the assertion in a build with ASSERT
\* enabled and trips nothing in a build without.
C22_EmptyAtDestruction ==
  [][aop' = <<"~WatermarkBufferFactory">> =>
       /\ AllCleared => (~SomeTracked /\ asserted' = "none")
       /\ (SomeTracked /\ build = "debug") =>
            asserted' = "~WatermarkBufferFactory: account set not empty"
       /\ (SomeTracked /\ build = "release") => asserted' = "none"]_vars

\* The factory was destroyed after all three accounts had been cleared, two
\* of them with a balance left.
C22_Witness ==
  /\ aop = <<"~WatermarkBufferFactory">>
  /\ factory_status = "destroyed"
  /\ asserted = "none"
  /\ \A a \in Accts : accounts[a].live /\ ~accounts[a].reset_handler_
  /\ Balance(1) = Bits(256)
  /\ Balance(2) = Bits(16)

\* C29: in every reachable state an account's shared_this_ is set if and
\* only if the account is a member of some bucket set.
C29_Original ==
  \A a \in Accts :
    accounts[a].live => (accounts[a].shared_this_ <=> SetsOf(a) # {})

\* C29 (amended): in every reachable state an account's shared_this_ is set
\* if and only if its downstream has not been cleared, that is from
\* createAccount until clearDownstream; an account that is a member of a
\* bucket set has shared_this_ set, and an account whose balance is below the
\* threshold has it set while it is a member of no set.
C29_SharedUntilCleared ==
  \A a \in Accts :
    accounts[a].live =>
      /\ accounts[a].shared_this_ <=> accounts[a].reset_handler_
      /\ SetsOf(a) # {} => accounts[a].shared_this_
      /\ (accounts[a].reset_handler_ /\ Bucket(a) = NoClass) =>
           (accounts[a].shared_this_ /\ SetsOf(a) = {})

\* A credit has taken account 1 out of its bucket set and the account still
\* holds shared_this_, while account 2 is in a set.
C29_Witness ==
  /\ aop[1] = "credit"
  /\ aop[2] = 1
  /\ asserted = "none"
  /\ accounts[1].live
  /\ accounts[1].shared_this_
  /\ Balance(1) = Bits(0)
  /\ SetsOf(1) = {}
  /\ accounts[2].live
  /\ SetsOf(2) = {5}

\* C30: every account classifies its balance with the bitshift of the factory
\* that created it: the bucket of an account whose downstream is not cleared
\* is the class of its balance under its own factory's bitshift_, whichever
\* account was classified first.
C30_OwnFactoryBitshift ==
  \A a \in FacAccts :
    (accounts[a].live /\ factory_[a] # 0 /\ accounts[a].reset_handler_) =>
      Bucket(a) = ClassIndex(Balance(a), factories[factory_[a]].bitshift_)

\* The bytes held by the live buffers bound to account a.
Held(a) == SumLengths(BoundTo(Tracked, a))

\* The behaviour is defined: no buffer that had an account was bound again
\* in a build without ASSERT.
Defined == asserted # "undefined: bindAccount on a bound buffer"

\* C23: a destroyed buffer credits all it holds to its account and then
\* drops the account, so an account none of whose bound buffers is left has
\* balance 0, and the assertion of the account's destructor never fails.
C23_DestroyCredits ==
  /\ [](Defined =>
          \A a \in BindAccts :
            (accounts[a].live /\ BoundTo(Tracked, a) = {}) => Balance(a) = Bits(0))
  /\ [](asserted # "~BufferMemoryAccountImpl")
  /\ [][\A b \in Bufs :
          (aop' = <<"~TrackedWatermarkBuffer", b>> /\ asserted' = "none"
           /\ buffers[b].account_ # 0) =>
            /\ Add64(accounts'[buffers[b].account_].buffer_memory_allocated_,
                     Bits(buffers[b].length))
                 = Balance(buffers[b].account_)
            /\ buffers'[b].state = "destroyed"
            /\ buffers'[b].account_ = 0]_vars

\* Account 1 was destructed when the last of its two buffers was destroyed,
\* while account 2 keeps the 2 bytes of its buffer.
C23_Witness ==
  /\ aop = <<"~TrackedWatermarkBuffer", 2>>
  /\ asserted = "none"
  /\ 1 \in destructed
  /\ Balance(1) = Bits(0)
  /\ buffers[1].state = "destroyed"
  /\ buffers[2].state = "destroyed"
  /\ buffers[3].account_ = 2
  /\ Balance(2) = Bits(2)

\* A live buffer that has an account keeps it in this step.
KeepsAccount(b) ==
  (buffers[b].account_ # 0 /\ buffers'[b].state = "live") =>
    buffers'[b].account_ = buffers[b].account_

\* C26: a second bindAccount on a buffer that has an account trips the
\* assertion, and the account of a buffer never changes once it is set.
C26_Original ==
  [][\A b \in Bufs :
       /\ \A a \in BindAccts :
            (aop' = <<"bindAccount", b, a>> /\ buffers[b].account_ # 0) =>
              asserted' = "on_bind: bound twice"
       /\ KeepsAccount(b)]_vars

\* C26 (amended): in a build with ASSERT enabled a second bindAccount on a
\* buffer that has an account trips the assertion and leaves the buffers
\* and the tracked factory as they were; in a build without ASSERT it trips
\* nothing and its effect is not defined.  As long as the behaviour is
\* defined, the account of a live buffer never changes once it is set, and
\* a first bindAccount sets it.
C26_BoundOnce ==
  [][\A b \in Bufs :
       /\ \A a \in BindAccts :
            /\ (aop' = <<"bindAccount", b, a>> /\ buffers[b].account_ # 0
                /\ build = "debug") =>
                 /\ asserted' = "on_bind: bound twice"
                 /\ buffers' = buffers
                 /\ actively_bound_buffers_' = actively_bound_buffers_
                 /\ account_infos_' = account_infos_
            /\ (aop' = <<"bindAccount", b, a>> /\ buffers[b].account_ # 0
                /\ build = "release") =>
                 asserted' = "undefined: bindAccount on a bound buffer"
            /\ (aop' = <<"bindAccount", b, a>> /\ buffers[b].account_ = 0) =>
                 asserted' = "none" /\ buffers'[b].account_ = a
       /\ asserted' # "undefined: bindAccount on a bound buffer" => KeepsAccount(b)]_vars

\* A debug build has tripped the assertion of on_bind when buffer 1, bound
\* to account 1 and holding 2 bytes, was bound to account 2.
C26_Witness ==
  /\ aop = <<"bindAccount", 1, 2>>
  /\ build = "debug"
  /\ asserted = "on_bind: bound twice"
  /\ buffers[1].account_ = 1
  /\ buffers[1].length = 2
  /\ Balance(1) = Bits(2)

\* The balance of account a after the step (0 stands for no account).
BalanceAfter(a) == accounts'[a].buffer_memory_allocated_

numBuffersActivelyBound == Cardinality(actively_bound_buffers_)

\* TrackedWatermarkBufferFactory::numAccountsActive()
numAccountsActive == Cardinality(DOMAIN account_infos_)

\* C28: while the process runs, numBuffersActivelyBound is the number of
\* live buffers that have an account and numAccountsActive is the number of
\* accounts with a live bound buffer, so both are 0 once every stream has
\* completed and every buffer was destroyed.
C28_TrackedCounts ==
  asserted = "none" =>
    /\ numBuffersActivelyBound
         = Cardinality({b \in Bufs : Live(b) /\ buffers[b].account_ # 0})
    /\ numAccountsActive
         = Cardinality({a \in BindAccts : BoundTo(Tracked, a) # {}})
    /\ ((\A b \in Bufs : ~Live(b)) /\ (\A a \in BindAccts : ~stream_account_[a])) =>
         (numBuffersActivelyBound = 0 /\ numAccountsActive = 0)

\* Every account is in the set of its current bucket and in no other.
SetsMirrorBuckets ==
  \A a \in Workers, i \in Buckets :
    a \in size_class_account_sets_[i] <=> (accounts[a].live /\ Bucket(a) = i)

\* C24: the bucket transitions of the accounts are atomic across threads: no
\* thread reads or changes a set that another thread is changing, and when
\* no thread is in a call the sets are those of the calls made in some
\* sequential order, in which every account is in the set of its bucket.
C24_AtomicTransitions ==
  /\ ~raced
  /\ ((\A t \in Threads : pc[t] = "idle") /\ asserted = "none") => SetsMirrorBuckets

\* C25: of a clearDownstream and a resetDownstream that run concurrently on
\* one account either the reset reaches the handler while it is attached or
\* the clear wins and no handler is invoked: a handler is never invoked after
\* clearDownstream has released it.
C25_NoTornHandler ==
  asserted # "undefined: reset handler invoked after its release"

\* The accounts in some bucket set after the last operation.
TrackedAfter == UNION {size_class_account_sets_'[i] : i \in Buckets}

\* C31: when the reset of every account the walk resets takes the account
\* out of its bucket set before resetDownstream returns (the handler clears
\* the downstream of its own account),
\* resetAllAccountsInBucketsStartingWith(k) resets every account that was in
\* the sets k..7 at the start exactly once, none is skipped, none is reset
\* twice, and the walk never advances from an iterator whose element was
\* erased.
C31_AdvanceBeforeReset ==
  [][(/\ aop'[1] = "resetAllAccountsInBucketsStartingWith"
      /\ ResetAccounts(events') \cap TrackedAfter = {}) =>
       /\ asserted' = "none"
       /\ ResetExactly(events', AtOrAbove(aop'[2]))
       /\ \A a \in AtOrAbove(aop'[2]) :
            Cardinality({j \in 1..Len(events') :
                           events'[j] = <<"resetDownstream", a>>}) = 1
       /\ \A i \in Buckets : i >= aop'[2] => size_class_account_sets_'[i] = {}]_vars

\* Two accounts of one bucket set and one of a higher set were reset in one
\* walk, each reset taking its account out of the set inline.
C31_Witness ==
  /\ aop = <<"resetAllAccountsInBucketsStartingWith", 3>>
  /\ asserted = "none"
  /\ events = << <<"resetDownstream", 3>>, <<"resetStream", 3>>,
                 <<"resetDownstream", 1>>, <<"resetStream", 1>>,
                 <<"resetDownstream", 2>>, <<"resetStream", 2>> >>
  /\ Balance(1) = Bits(16) /\ Balance(3) = Bits(16) /\ Balance(2) = Bits(64)
  /\ \A i \in Buckets : size_class_account_sets_[i] = {}

\* The assertions of updateAccountClass and unregisterAccount of the factory.
MembershipAssertions ==
  {"updateAccountClass: classes equal", "updateAccountClass: already tracked",
   "updateAccountClass: not tracked", "updateAccountClass: not in current",
   "updateAccountClass: already in new", "unregisterAccount: not tracked",
   "value() of an empty node handle"}

\* The class the last charge or credit of account a computed from the new
\* balance.
NewClass(a) == ClassIndex(accounts'[a].buffer_memory_allocated_, static_bitshift')

\* C32: in any sequence of charge, credit and clearDownstream calls on the
\* accounts of one factory, a charge or credit that calls the factory's
\* updateAccountClass passes a new class that differs from the current one,
\* with the account in the set of the current class (when it has one) and
\* not in the set of the new class; a clearDownstream that calls
\* unregisterAccount passes the class whose set holds the account; no
\* membership assertion fails.
C32_MembershipAssertions ==
  [][/\ asserted' \notin MembershipAssertions
     /\ \A a \in Accts :
          /\ (/\ aop'[1] \in {"charge", "credit"}
              /\ aop'[2] = a
              /\ accounts[a].shared_this_
              /\ asserted' = "none"
              /\ NewClass(a) # Bucket(a)) =>
                /\ Bucket(a) # NoClass => a \in size_class_account_sets_[Bucket(a)]
                /\ NewClass(a) # NoClass => a \notin size_class_account_sets_[NewClass(a)]
          /\ (/\ aop' = <<"clearDownstream", a>>
              /\ accounts[a].reset_handler_
              /\ Bucket(a) # NoClass) =>
                a \in size_class_account_sets_[Bucket(a)]]_vars

\* A credit has moved an account from the set of bucket 5 to the set of
\* bucket 3 while another account stays in the set of bucket 5, and the
\* third account has left the sets by clearDownstream.
C32_Witness ==
  /\ aop = <<"credit", 1, Bits(48)>>
  /\ asserted = "none"
  /\ build = "debug"
  /\ size_class_account_sets_[3] = {1}
  /\ size_class_account_sets_[5] = {2}
  /\ accounts[3].live
  /\ ~accounts[3].reset_handler_
  /\ Balance(3) = Bits(256)

\* C33: after every setWatermarks(high) the low watermark is floor(high / 2)
\* and the overflow watermark is 0 or the exact product of the runtime
\* multiplier and high, so low <= high, and high <= overflow when the
\* overflow watermark is enabled.
C33_DerivedWatermarks ==
  LET p == Mul64(runtime_multiplier, high_watermark_)
  IN /\ 2 * low_watermark_ <= high_watermark_
     /\ high_watermark_ < 2 * low_watermark_ + 2
     /\ \/ overflow_watermark_ = 0
        \/ /\ ~ExceedsUint32(p)
           /\ p = ToBytes(overflow_watermark_) \o <<0, 0, 0, 0>>
     /\ low_watermark_ <= high_watermark_
     /\ overflow_watermark_ # 0 => high_watermark_ <= overflow_watermark_

\* setWatermarks(41) with the multiplier 3 on a buffer that holds bytes.
C33_Witness ==
  /\ op = "setWatermarks"
  /\ length > 0
  /\ runtime_multiplier = 3
  /\ high_watermark_ = 41
  /\ low_watermark_ = 20
  /\ overflow_watermark_ = 123

\* The least multiple of DEFAULT_SLICE_SIZE that is not below n.
SlicesFor(n) ==
  CHOOSE r \in {k * default_slice_size_ : k \in 0..(n \div default_slice_size_ + 1)} :
    r >= n /\ r - n < default_slice_size_

\* C34: reserveForRead asks for the preferred read reservation size when
\* high = 0; for one DEFAULT_SLICE_SIZE when length >= high; otherwise for
\* the smaller of the preferred size and high - length rounded up to a
\* multiple of DEFAULT_SLICE_SIZE; it changes neither the length nor a
\* watermark nor a latch and invokes no callback.
C34_ReservationLength ==
  [][op' = "reserveForRead" =>
       /\ reservation' =
            IF high_watermark_ = 0 THEN default_read_reservation_size_
            ELSE IF length >= high_watermark_ THEN default_slice_size_
            ELSE IF SlicesFor(high_watermark_ - length) < default_read_reservation_size_
                 THEN SlicesFor(high_watermark_ - length)
                 ELSE default_read_reservation_size_
       /\ calls' = <<>>
       /\ UNCHANGED <<length, high_watermark_, low_watermark_, overflow_watermark_,
                      above_high_watermark_called_,
                      above_overflow_watermark_called_>>]_vars

\* Scenario S5: high 16 KiB, length 12 KiB, a reservation of 4 KiB.
C34_Witness ==
  /\ op = "reserveForRead"
  /\ high_watermark_ = 16384
  /\ length = 12288
  /\ reservation = 4096
  /\ calls = <<>>
  /\ ~above_high_watermark_called_

\* C35: after every buffer operation, a buffer with an enabled high
\* watermark whose length exceeds it has its high latch set.
C35_NoUnderFiring ==
  (high_watermark_ > 0 /\ length > high_watermark_) => above_high_watermark_called_

\* setWatermarks lowered the high watermark below the length of a buffer
\* whose latch was clear, and invoked above_high.
C35_Witness ==
  /\ op = "setWatermarks"
  /\ high_watermark_ > 0
  /\ length > high_watermark_
  /\ calls = <<"above_high">>
  /\ above_high_watermark_called_

\* C36: above_overflow is invoked only with the high latch set, after
\* above_high when one operation invokes both, and in the operation that
\* leaves the buffer above the overflow watermark; above_high is invoked in
\* the operation that leaves the buffer above the high watermark; each of
\* the two callbacks finds its own latch already set.
C36_OverflowAfterHigh ==
  [][/\ Len(seen') = Len(calls')
     /\ \A i \in 1..Len(calls') :
          /\ calls'[i] = "above_high" => seen'[i][1]
          /\ calls'[i] = "above_overflow" =>
               /\ seen'[i][1]
               /\ seen'[i][2]
               /\ \A j \in 1..Len(calls') : calls'[j] = "above_high" => j < i
     /\ Count(calls', "above_high") > 0 =>
          (high_watermark_' > 0 /\ length' > high_watermark_')
     /\ Count(calls', "above_overflow") > 0 =>
          /\ above_high_watermark_called_'
          /\ overflow_watermark_' > 0
          /\ length' > overflow_watermark_']_vars

\* One add crossed both thresholds: above_high, then above_overflow.
C36_Witness ==
  /\ op = "add"
  /\ calls = <<"above_high", "above_overflow">>
  /\ seen = << <<TRUE, FALSE>>, <<TRUE, TRUE>> >>
  /\ length > overflow_watermark_
  /\ overflow_watermark_ > high_watermark_

\* C37: an account whose downstream was cleared is in no bucket set and has
\* no current bucket, and a charge or credit on it changes its balance by
\* the amount and leaves every bucket set, its current bucket and its
\* self-reference as they are.
C37_ClearedStaysUntracked ==
  [][\A a \in Accts :
       IF accounts'[a].live /\ asserted' = "none"
       THEN /\ ~accounts'[a].reset_handler_ =>
                 /\ a \notin TrackedAfter
                 /\ accounts'[a].current_bucket_idx_ = NoClass
                 /\ ~accounts'[a].shared_this_
            /\ (/\ aop'[1] \in {"charge", "credit"}
                /\ aop'[2] = a
                /\ ~accounts[a].reset_handler_) =>
                  /\ size_class_account_sets_' = size_class_account_sets_
                  /\ ~accounts'[a].reset_handler_
                  /\ accounts'[a].buffer_memory_allocated_ =
                       IF aop'[1] = "charge" THEN Add64(Balance(a), aop'[3])
                       ELSE Sub64(Balance(a), aop'[3])
                  /\ accounts'[a].buffer_memory_allocated_ # Balance(a)
       ELSE TRUE]_vars

\* An account whose downstream was cleared at balance 0 was charged up to
\* the balance of bucket 7 and then credited down to that of bucket 3,
\* while another account is tracked.
C37_Witness ==
  /\ aop = <<"credit", 1, Bits(240)>>
  /\ asserted = "none"
  /\ ~accounts[1].reset_handler_
  /\ Balance(1) = Bits(16)
  /\ Bucket(1) = NoClass
  /\ size_class_account_sets_[3] = {2}
  /\ \A i \in Buckets \ {3} : size_class_account_sets_[i] = {}

\* C39: resetAllAccountsInBucketsStartingWith(k) on a factory invokes the
\* reset handler of exactly the accounts of that factory that have their
\* reset handler and a balance of at least 2^bitshift_ * 2^k, bitshift_
\* being the factory's; with k = 0 these are the accounts whose balance is
\* not below the tracking threshold.
C39_ShedsByBalance ==
  [][aop'[1] = "resetAllAccountsInBucketsStartingWith" =>
       LET k == aop'[2]
           f == aop'[3]
       IN /\ asserted' = "none"
          /\ HandlersInvoked(events') =
               {a \in FacAccts :
                  IF accounts[a].live /\ factory_[a] = f
                  THEN /\ accounts[a].reset_handler_
                       /\ Geq(Balance(a), Pow2(factories[f].bitshift_ + k))
                  ELSE FALSE}]_vars

\* C38: in a shedding walk every account the walk dereferences or advances
\* to is a member of the set being walked, also when the reset callbacks of
\* one stream, run before resetDownstream returns, clear the downstream of
\* another account such as the next one of the same set: the walk never
\* uses an iterator whose element was erased.
C38_WalkStaysInSet ==
  asserted # "invalidated iterator"

====
